---- MODULE Spec2Model ----
(***************************************************************************)
(* A model of graphcalc's dependency-resolved geometric engine             *)
(* (services/mathUtils: createMathScope, calculateObjectSlope,             *)
(* calculateWorldPoints, getObjectsToRemove and the solvers they call)     *)
(* and of the application operations of App.tsx / Canvas.tsx that create   *)
(* and delete construction objects.                                        *)
(*                                                                         *)
(* Numbers.  A JavaScript number is modelled as a pair <<n, d>>: a reduced *)
(* fraction n/d with d > 0, or <<1,0>> (Infinity), <<-1,0>> (-Infinity),   *)
(* <<0,0>> (NaN).  `undefined` is the empty tuple <<>>.  An exception      *)
(* leaving a function is the value Throw.  Floating-point rounding is not  *)
(* modelled: arithmetic is exact.                                          *)
(*                                                                         *)
(* Style.  A value that is used more than once is passed to a helper       *)
(* operator as a parameter; the helper carries the name of the function    *)
(* it belongs to.                                                          *)
(***************************************************************************)
EXTENDS Integers, Sequences, FiniteSets, TLC

(***************************************************************************)
(* Numbers                                                                 *)
(***************************************************************************)
Undefined == << >>
Throw == <<0, 0, 0>>
NaN == <<0, 0>>
Infinity == <<1, 0>>
NegInfinity == <<-1, 0>>

Abs(n) == IF n < 0 THEN -n ELSE n

RECURSIVE GCD(_, _)
GCD(a, b) == IF b = 0 THEN a ELSE GCD(b, a % b)

NormBy(n, d, g) ==
    IF g = 0 THEN NaN
    ELSE IF d < 0 THEN <<-(n \div g), -(d \div g)>>
    ELSE <<n \div g, d \div g>>

Norm(n, d) == NormBy(n, d, GCD(Abs(n), Abs(d)))

R(n) == <<n, 1>>
IsNumber(v) == Len(v) = 2
isNaN(v) == v = NaN
isFinite(v) == Len(v) = 2 /\ v[2] # 0
RAdd(a, b) == Norm(a[1] * b[2] + b[1] * a[2], a[2] * b[2])
RSub(a, b) == Norm(a[1] * b[2] - b[1] * a[2], a[2] * b[2])
RMul(a, b) == Norm(a[1] * b[1], a[2] * b[2])
RDiv(a, b) == Norm(a[1] * b[2], a[2] * b[1])
RNeg(a) == <<-a[1], a[2]>>
RAbs(a) == <<Abs(a[1]), a[2]>>
\* a < b in JavaScript: false when either side is NaN.
RLt(a, b) ==
    IF isNaN(a) \/ isNaN(b) THEN FALSE
    ELSE IF a = b THEN FALSE
    ELSE IF a = NegInfinity \/ b = Infinity THEN TRUE
    ELSE IF a = Infinity \/ b = NegInfinity THEN FALSE
    ELSE a[1] * b[2] < b[1] * a[2]
\* |v| < 1/t for a finite v (n * t < d, written without the product n * t).
AbsBelow(v, t) == Abs(v[1]) <= (v[2] - 1) \div t
\* |v| > t for a finite v (n > t * d, written without the product t * d).
AbsAbove(v, t) ==
    \/ Abs(v[1]) \div v[2] > t
    \/ Abs(v[1]) \div v[2] = t /\ Abs(v[1]) % v[2] # 0
\* |v| > 1/t for a finite v.
AbsOver(v, t) == Abs(v[1]) * t > v[2]
\* JavaScript `v || 0` on an optional number.
OrZero(v) == IF v = Undefined \/ v = NaN \/ v = R(0) THEN R(0) ELSE v

(***************************************************************************)
(* Expressions.  An expression string is modelled by its parse: the        *)
(* polynomial c2*x^2 + c1*x + c0 plus at most one further symbol s.  A     *)
(* symbol is written in one of the surface forms the input accepts:        *)
(*   name  "x_A", "a", "m_r"          call  "x(A)", "slope(r)"             *)
(*   dot   "A.x"                      none  no symbol                      *)
(***************************************************************************)
UpperLabels == {"A", "B", "C", "D", "E", "F"}
LowerLabels == {"r", "s", "t", "u", "v", "w", "a", "q"}

NoSym == [form |-> "none", head |-> "", arg |-> ""]
Name(n) == [form |-> "name", head |-> n, arg |-> ""]
Call(h, a) == [form |-> "call", head |-> h, arg |-> a]
Dot(a, h) == [form |-> "dot", head |-> h, arg |-> a]

Poly(c2, c1, c0, s) == [c2 |-> c2, c1 |-> c1, c0 |-> c0, s |-> s]
Const(k) == Poly(0, 0, k, NoSym)
\* The expression (e) / den, den a positive integer: "x^2 / 250000".  The
\* CAS model takes expressions without a divisor.
Scaled(e, den) == [den |-> den] @@ e
\* v / den for an expression with a divisor, v for one without.
Over(v, e) ==
    IF "den" \in DOMAIN e /\ Len(v) = 2 THEN RDiv(v, R(e.den)) ELSE v
Ref(s, k) == Poly(0, 0, k, s)

\* sanitizeExpression on one symbol: x(A) -> x_A, A.x -> x_A,
\* declive(r) / slope(r) -> declive_r; anything else is left as written.
sanitizeSymbol(s) ==
    IF s.form = "call" /\ s.head \in {"x", "y"} /\ s.arg \in UpperLabels
        THEN Name(s.head \o "_" \o s.arg)
    ELSE IF s.form = "dot" /\ s.head \in {"x", "y"} /\ s.arg \in UpperLabels
        THEN Name(s.head \o "_" \o s.arg)
    ELSE IF s.form = "call" /\ s.head \in {"declive", "slope"} /\ s.arg \in LowerLabels
        THEN Name("declive_" \o s.arg)
    ELSE s

sanitizeExpression(e) == [e EXCEPT !.s = sanitizeSymbol(e.s)]

MentionsX(e) == e.c2 # 0 \/ e.c1 # 0

\* c2*x^2 + c1*x + k at x.
PolyValue(c2, c1, k, xv) ==
    RAdd(RAdd(RMul(R(c2), RMul(xv, xv)), RMul(R(c1), xv)), k)

\* A faulty evaluate: a symbol the scope does not define reads as 0.
evaluateUndefinedAsZero(e, scope) ==
    IF e.s.form \notin {"none", "name"} THEN Throw
    ELSE Over(PolyValue(e.c2, e.c1,
                        IF e.s.form = "name" /\ e.s.head \in DOMAIN scope
                            THEN RAdd(R(e.c0), scope[e.s.head]) ELSE R(e.c0),
                        IF MentionsX(e) /\ "x" \in DOMAIN scope THEN scope["x"] ELSE R(0)),
              e)

\* math.evaluate(expr, scope): the value, or Throw on an undefined symbol
\* (a call or property access that sanitizeExpression left in place names
\* no function or object of the scope).
evaluate(e, scope) ==
    IF MentionsX(e) /\ "x" \notin DOMAIN scope THEN Throw
    ELSE IF e.s.form \notin {"none", "name"} THEN Throw
    ELSE IF e.s.form = "name" /\ e.s.head \notin DOMAIN scope THEN Throw
    ELSE Over(PolyValue(e.c2, e.c1,
                        IF e.s.form = "none" THEN R(e.c0) ELSE RAdd(R(e.c0), scope[e.s.head]),
                        IF MentionsX(e) THEN scope["x"] ELSE R(0)),
              e)

(***************************************************************************)
(* Lists                                                                   *)
(***************************************************************************)
Range(seq) == {seq[k] : k \in 1..Len(seq)}

\* Array.prototype.find as an index: the first k with seq[k][field] = v, or 0.
FirstIndex(seq, field, v) ==
    IF \E k \in 1..Len(seq) : seq[k][field] = v
        THEN CHOOSE k \in 1..Len(seq) :
                 seq[k][field] = v /\ \A j \in 1..(k - 1) : seq[j][field] # v
        ELSE 0

\* points.find(p => String(p.id) === String(id))
FindPoint(pts, id) == FirstIndex(pts, "id", id)
\* analyses.find(a => String(a.id) === String(id))
FindAnalysis(analyses, id) == FirstIndex(analyses, "id", id)
\* functions.find(fn => fn.id === id)
FindFunction(fns, id) == FirstIndex(fns, "id", id)
\* the first parameter of a name
ParamIndex(ps, n) == FirstIndex(ps, "name", n)

(***************************************************************************)
(* 4.1 Expression scope builder and slope evaluator                        *)
(***************************************************************************)
LineTypes == {"line", "segment", "ray"}
SlopeTypes == {"line", "segment", "ray", "tangent_analysis", "slope_analysis"}

\* params.forEach(p => scope[p.name] = p.value)
RECURSIVE ParamScope(_, _)
ParamScope(ps, n) ==
    IF n = 0 THEN << >>
    ELSE (ps[n].name :> ps[n].value) @@ ParamScope(ps, n - 1)

\* calculatedPoints.forEach(pt => { if (pt.label) { scope[x_label], scope[y_label] } })
RECURSIVE PointScope(_, _)
PointScope(pts, n) ==
    IF n = 0 THEN << >>
    ELSE IF pts[n].label = "" THEN PointScope(pts, n - 1)
    ELSE (("x_" \o pts[n].label) :> pts[n].x) @@ (("y_" \o pts[n].label) :> pts[n].y)
         @@ PointScope(pts, n - 1)

SlopeAliases(label, slope) ==
    (label :> slope) @@ (("declive_" \o label) :> slope)
    @@ (("slope_" \o label) :> slope) @@ (("m_" \o label) :> slope)

\* (f(x + h) - f(x - h)) / (2h) with h = 1e-5 of the polynomial c2*x^2 + c1*x + c0 + s:
\* the centered difference of a polynomial of degree <= 2 is its derivative.
CenteredDifference(e, xv) == Over(RAdd(RMul(R(2 * e.c2), xv), R(e.c1)), e)

RECURSIVE calculateObjectSlope(_, _, _, _, _, _, _)
RECURSIVE SlopeScope(_, _, _, _, _, _, _)
RECURSIVE createMathScope(_, _, _, _, _, _)

\* Lines 406-407.
SlopeFrom(dx, dy) == IF AbsBelow(dx, 1000000000) THEN Infinity ELSE RDiv(dy, dx)

\* Lines 403-408: p1 and p2 are the positions of the two endpoints in
\* calculatedPoints, 0 when the point is missing.
LineSlopeAt(calculatedPoints, p1, p2) ==
    IF p1 = 0 \/ p2 = 0 THEN Undefined
    ELSE SlopeFrom(RSub(calculatedPoints[p2].x, calculatedPoints[p1].x),
                   RSub(calculatedPoints[p2].y, calculatedPoints[p1].y))

LineSlope(obj, calculatedPoints) ==
    LineSlopeAt(calculatedPoints, FindPoint(calculatedPoints, obj.vertices[1]),
                FindPoint(calculatedPoints, obj.vertices[2]))

\* Lines 412-416: the anchor x of a tangent.
TangentXAt(obj, calculatedPoints, p) == IF p # 0 THEN calculatedPoints[p].x ELSE obj.x

TangentX(obj, calculatedPoints) ==
    TangentXAt(obj, calculatedPoints,
               IF Len(obj.vertices) > 0 THEN FindPoint(calculatedPoints, obj.vertices[1])
               ELSE 0)

\* Lines 421-426: the try block; sc is the scope of line 420.
TangentIn(e, xv, sc) ==
    IF sc.thrown THEN Throw
    ELSE IF evaluate(e, ("x" :> xv) @@ sc.scope) = Throw THEN Undefined
    ELSE CenteredDifference(e, xv)

\* Lines 417-420.
TangentAt(obj, fns, analyses, ps, calculatedPoints, visitedIds, stack, f, xv) ==
    IF f = 0 \/ xv = Undefined THEN Undefined
    ELSE TangentIn(fns[f].expression, xv,
                   createMathScope(ps, calculatedPoints, analyses, fns,
                                   visitedIds \cup {obj.id}, stack))

\* Lines 398-429 once the guard of line 397 has let the call in; t is the
\* position of the target of a slope_analysis, 0 when there is none.
SlopeOf(obj, fns, analyses, ps, calculatedPoints, visitedIds, stack, t) ==
    IF t # 0
        THEN calculateObjectSlope(analyses[t], fns, analyses, ps, calculatedPoints,
                                  visitedIds, stack)
    ELSE IF obj.type \in LineTypes /\ Len(obj.vertices) = 2
        THEN LineSlope(obj, calculatedPoints)
    ELSE IF obj.type = "tangent_analysis" /\ obj.funcId # 0
        THEN TangentAt(obj, fns, analyses, ps, calculatedPoints, visitedIds, stack,
                       FindFunction(fns, obj.funcId), TangentX(obj, calculatedPoints))
    ELSE Undefined

\* `stack` holds the calls <<obj, visitedIds>> that are active.  A call whose
\* arguments are already on the stack recurses without end: the engine ends
\* it with RangeError (Maximum call stack size exceeded), which no frame catches.
calculateObjectSlope(obj, fns, analyses, ps, calculatedPoints, visitedIds, stack) ==
    IF obj.id \in visitedIds THEN Undefined
    ELSE IF <<obj, visitedIds>> \in Range(stack) THEN Throw
    ELSE SlopeOf(obj, fns, analyses, ps, calculatedPoints, visitedIds,
                 Append(stack, <<obj, visitedIds>>),
                 IF obj.type = "slope_analysis" /\ obj.targetId # ""
                     THEN FindAnalysis(analyses, obj.targetId) ELSE 0)

\* Lines 441-446.
SlopeScopePut(label, slope, rest) ==
    IF slope = Throw THEN [thrown |-> TRUE, scope |-> << >>]
    ELSE IF slope # Undefined /\ isFinite(slope)
        THEN [thrown |-> FALSE, scope |-> SlopeAliases(label, slope) @@ rest.scope]
    ELSE rest

\* Lines 437-440: the forEach callback for the object at n, after the
\* objects before it gave `rest`.
SlopeScopeAdd(n, ps, calculatedPoints, activeAnalyses, fns, visitedIds, stack, rest) ==
    IF rest.thrown THEN rest
    ELSE IF activeAnalyses[n].label # "" /\ activeAnalyses[n].id \notin visitedIds
            /\ activeAnalyses[n].type \in SlopeTypes
        THEN SlopeScopePut(activeAnalyses[n].label,
                           calculateObjectSlope(activeAnalyses[n], fns, activeAnalyses, ps,
                                                calculatedPoints, visitedIds, stack),
                           rest)
    ELSE rest

\* activeAnalyses.forEach(an => ...) of createMathScope over the first n objects.
SlopeScope(n, ps, calculatedPoints, activeAnalyses, fns, visitedIds, stack) ==
    IF n = 0 THEN [thrown |-> FALSE, scope |-> << >>]
    ELSE SlopeScopeAdd(n, ps, calculatedPoints, activeAnalyses, fns, visitedIds, stack,
                       SlopeScope(n - 1, ps, calculatedPoints, activeAnalyses, fns,
                                  visitedIds, stack))

\* Lines 433-435 and 450: slopes are written last and so win over points,
\* points over parameters.
MergeScope(sl, ps, calculatedPoints) ==
    IF sl.thrown THEN sl
    ELSE [thrown |-> FALSE,
          scope |-> sl.scope @@ PointScope(calculatedPoints, Len(calculatedPoints))
                    @@ ParamScope(ps, Len(ps))]

createMathScope(ps, calculatedPoints, activeAnalyses, fns, visitedIds, stack) ==
    MergeScope(SlopeScope(Len(activeAnalyses), ps, calculatedPoints, activeAnalyses, fns,
                          visitedIds, stack),
               ps, calculatedPoints)

(***************************************************************************)
(* The computer-algebra system (nerdamer) as the solvers use it            *)
(***************************************************************************)
\* The textual substitution of the parameter values (lines 201, 255): i is
\* the position of the parameter the symbol of the expression names, or 0.
SubstWith(se, ps, i) ==
    IF i # 0
        THEN [c2 |-> se.c2, c1 |-> se.c1, k |-> RAdd(R(se.c0), ps[i].value), s |-> NoSym]
        ELSE [c2 |-> se.c2, c1 |-> se.c1, k |-> R(se.c0), s |-> se.s]

SubstAt(se, ps) ==
    SubstWith(se, ps, IF se.s.form = "name" THEN ParamIndex(ps, se.s.head) ELSE 0)

SubstParams(e, ps) == SubstAt(sanitizeExpression(e), ps)

\* The square root of a perfect square, or -1.
ISqrt(n) == IF \E r \in 0..n : r * r = n THEN CHOOSE r \in 0..n : r * r = n ELSE -1

RSqrtOf(sn, sd) == IF sn < 0 \/ sd < 0 THEN NaN ELSE <<sn, sd>>

\* The square root of a perfect square rational, or NaN.
RSqrt(v) == IF v[1] < 0 THEN NaN ELSE RSqrtOf(ISqrt(v[1]), ISqrt(v[2]))

\* The roots of c2*x^2 + c1*x + k with sq the square root of the discriminant.
QuadRoots(c2, c1, sq) ==
    IF isNaN(sq) THEN <<NaN, NaN>>
    ELSE IF sq = R(0) THEN <<RDiv(R(-c1), R(2 * c2))>>
    ELSE <<RDiv(RAdd(R(-c1), sq), R(2 * c2)), RDiv(RSub(R(-c1), sq), R(2 * c2))>>

\* nerdamer.solve(c2*x^2 + c1*x + k, 'x') read back with parseFloat: the real
\* roots, the one with the positive square root first.  An equation that keeps
\* a free symbol has roots that are no numbers (parseFloat gives NaN), and so
\* has a quadratic with negative discriminant.
CasSolve(c2, c1, k, s) ==
    IF s.form # "none" THEN IF c2 = 0 /\ c1 = 0 THEN << >> ELSE <<NaN>>
    ELSE IF c2 = 0 /\ c1 = 0 THEN << >>
    ELSE IF c2 = 0 THEN <<RDiv(RNeg(k), R(c1))>>
    ELSE QuadRoots(c2, c1, RSqrt(RSub(R(c1 * c1), RMul(R(4 * c2), k))))

\* The value of c2*x^2 + c1*x + k (+ s) at x, as nerdamer evaluates it and
\* parseFloat reads it: NaN when a free symbol is left.
CasValue(q, xv) ==
    IF q.s.form # "none" THEN NaN ELSE PolyValue(q.c2, q.c1, q.k, xv)

(***************************************************************************)
(* 4.4 Symbolic root / extremum solver                                     *)
(***************************************************************************)
\* labelFn (lines 230, 234-243): for min / max a label exists only when the
\* second derivative 2*c2 has the sign of the subtype.
HasLabel(type, conc) ==
    \/ type = "zeros"
    \/ type = "max" /\ conc < 0
    \/ type = "min" /\ conc > 0

\* Lines 208-223: the forEach callback on one root.
ProcessRoot(results, xVal, q, type) ==
    IF ~isNaN(xVal) /\ isFinite(xVal) /\ HasLabel(type, 2 * q.c2)
        THEN Append(results, [x |-> xVal,
                              y |-> IF type = "zeros" THEN R(0) ELSE CasValue(q, xVal)])
        ELSE results

RECURSIVE processRoots(_, _, _, _)
processRoots(roots, n, q, type) ==
    IF n = 0 THEN << >>
    ELSE ProcessRoot(processRoots(roots, n - 1, q, type), roots[n], q, type)

ProcessAll(roots, q, type) == processRoots(roots, Len(roots), q, type)

\* Lines 228-244 with q the expression after the substitution of line 201.
SolveSymbolicIn(q, type) ==
    IF type = "zeros" THEN ProcessAll(CasSolve(q.c2, q.c1, q.k, q.s), q, type)
    ELSE IF type \in {"min", "max"}
        THEN ProcessAll(CasSolve(0, 2 * q.c2, R(q.c1), NoSym), q, type)
    ELSE << >>

solveSymbolic(expression, type, ps) == SolveSymbolicIn(SubstParams(expression, ps), type)

(***************************************************************************)
(* 4.3 Numeric root / extremum solver (Newton-Raphson)                     *)
(***************************************************************************)
NewtonIterations == 30

NaNOnThrow(v) == IF v = Throw THEN NaN ELSE v

\* f(x) of solveClosest: compiled.evaluate({...scope, ...params, x}), NaN on a throw.
ClosestF(e, ps, scope, xv) ==
    NaNOnThrow(evaluate(sanitizeExpression(e),
                        ("x" :> xv) @@ ParamScope(ps, Len(ps)) @@ scope))

\* g with fx = f(x): f itself for zeros, the centered difference of f for min / max.
ClosestGOf(e, type, xv, fx) ==
    IF isNaN(fx) THEN NaN
    ELSE IF type = "zeros" THEN fx
    ELSE CenteredDifference(e, xv)

ClosestG(e, type, ps, scope, xv) == ClosestGOf(e, type, xv, ClosestF(e, ps, scope, xv))

\* (g(x + h) - g(x - h)) / (2h)
ClosestDg(e, type, xv) ==
    IF type = "zeros" THEN CenteredDifference(e, xv) ELSE Over(R(2 * e.c2), e)

RECURSIVE NewtonLoop(_, _, _, _, _, _)

\* Lines 175-177.
NewtonMove(e, type, ps, scope, currentX, i, nextX) ==
    IF AbsBelow(RSub(nextX, currentX), 1000000000) THEN [x |-> nextX, found |-> TRUE]
    ELSE IF AbsAbove(nextX, 1000000) THEN [x |-> currentX, found |-> FALSE]
    ELSE NewtonLoop(e, type, ps, scope, nextX, i + 1)

\* Lines 168-174.
NewtonStep(e, type, ps, scope, currentX, i, y, dg) ==
    IF isNaN(y) THEN [x |-> currentX, found |-> FALSE]
    ELSE IF AbsBelow(y, 10000000) THEN [x |-> currentX, found |-> TRUE]
    ELSE IF AbsBelow(dg, 1000000000) THEN [x |-> currentX, found |-> FALSE]
    ELSE NewtonMove(e, type, ps, scope, currentX, i, RSub(currentX, RDiv(y, dg)))

\* The loop `for (let i = 0; i < 30; i++)`: the final currentX and found.
NewtonLoop(e, type, ps, scope, currentX, i) ==
    IF i >= NewtonIterations THEN [x |-> currentX, found |-> FALSE]
    ELSE NewtonStep(e, type, ps, scope, currentX, i,
                    ClosestG(e, type, ps, scope, currentX), ClosestDg(e, type, currentX))

\* A faulty end of solveClosest: the second derivative is not looked at.
ClosestResultUnclassified(e, type, ps, scope, r, gEnd) ==
    IF r.found \/ (~isNaN(gEnd) /\ AbsBelow(gEnd, 1000))
        THEN <<[x |-> r.x, y |-> ClosestF(e, ps, scope, r.x)]>>
        ELSE Undefined

\* Line 182: (f(x + h) - 2 f(x) + f(x - h)) / (h * h), the same at every x.
f_prime_prime(e) == Over(R(2 * e.c2), e)

\* Lines 179-194 with r the outcome of the loop and gEnd = g(currentX):
\* f_prime_prime > 1e-5 rejects a max, f_prime_prime < -1e-5 a min.
ClosestResult(e, type, ps, scope, r, gEnd) ==
    IF r.found \/ (~isNaN(gEnd) /\ AbsBelow(gEnd, 1000))
        THEN IF type = "max" /\ RLt(<<1, 100000>>, f_prime_prime(e)) THEN Undefined
             ELSE IF type = "min" /\ RLt(f_prime_prime(e), <<-1, 100000>>) THEN Undefined
             ELSE <<[x |-> r.x, y |-> ClosestF(e, ps, scope, r.x)]>>
        ELSE Undefined

ClosestAfter(e, type, ps, scope, r) ==
    ClosestResult(e, type, ps, scope, r, ClosestG(e, type, ps, scope, r.x))

\* The result <<{x, y}>>, or Undefined for null.
solveClosest(expression, type, targetX, ps, scope) ==
    ClosestAfter(expression, type, ps, scope,
                 NewtonLoop(expression, type, ps, scope, targetX, 0))

(***************************************************************************)
(* 4.5 Intersection solver                                                 *)
(***************************************************************************)
\* x.toFixed(3): the sign and the number of thousandths, rounded half away
\* from zero ("-0.000" and "0.000" are different strings).
toFixed3(v) == <<v[1] < 0, (2000 * Abs(v[1]) + v[2]) \div (2 * v[2])>>

\* math.evaluate(expr1, {...combinedScope, x}) of line 263: Undefined when it throws.
CandidateY(q1, xv, combinedScope) ==
    IF q1.s.form = "none" THEN CasValue(q1, xv)
    ELSE IF q1.s.form = "name" /\ q1.s.head \in DOMAIN combinedScope
        THEN RAdd(PolyValue(q1.c2, q1.c1, q1.k, xv), combinedScope[q1.s.head])
    ELSE Undefined

\* Line 264.
PushCandidate(before, xv, hash, yv) ==
    IF yv # Undefined /\ isFinite(yv)
        THEN [cands |-> Append(before.cands, [x |-> xv, y |-> yv]),
              hashes |-> before.hashes \cup {hash}]
        ELSE [cands |-> before.cands, hashes |-> before.hashes \cup {hash}]

\* addCandidate (lines 261-265).
addCandidate(before, xv, q1, combinedScope) ==
    IF ~isFinite(xv) THEN before
    ELSE IF toFixed3(xv) \in before.hashes THEN before
    ELSE PushCandidate(before, xv, toFixed3(xv), CandidateY(q1, xv, combinedScope))

\* rootList.forEach of line 271.
RECURSIVE addCandidates(_, _, _, _)
addCandidates(roots, n, q1, combinedScope) ==
    IF n = 0 THEN [cands |-> << >>, hashes |-> {}]
    ELSE addCandidate(addCandidates(roots, n - 1, q1, combinedScope), roots[n], q1,
                      combinedScope)

Distance(cands, k, targetX) == RAbs(RSub(cands[k].x, targetX))

\* candidates.sort by |x - targetX| (stable), then candidates[0].
Nearest(cands, targetX) ==
    CHOOSE k \in 1..Len(cands) :
        /\ \A j \in 1..Len(cands) :
               ~RLt(Distance(cands, j, targetX), Distance(cands, k, targetX))
        /\ \A j \in 1..(k - 1) :
               RLt(Distance(cands, k, targetX), Distance(cands, j, targetX))

ProximityThreshold == 5

\* A faulty selection: the nearest candidate is kept however far it is.
WithinAnyDistance(c, targetX) == <<c>>

\* Line 275 with c the nearest candidate.
WithinThreshold(c, targetX) ==
    IF RLt(RAbs(RSub(c.x, targetX)), R(ProximityThreshold)) THEN <<c>> ELSE << >>

FinalCandidates(candidates, targetX) ==
    IF targetX = Undefined THEN candidates
    ELSE IF Len(candidates) > 0
        THEN WithinThreshold(candidates[Nearest(candidates, targetX)], targetX)
    ELSE << >>

\* Lines 266-273: the roots of (expr1) - (expr2).
IntersectionRoots(q1, q2) ==
    CasSolve(q1.c2 - q2.c2, q1.c1 - q2.c1, RSub(q1.k, q2.k),
             IF q1.s = q2.s THEN NoSym ELSE IF q1.s.form # "none" THEN q1.s ELSE q2.s)

CandidatesOf(roots, q1, combinedScope) ==
    addCandidates(roots, Len(roots), q1, combinedScope).cands

IntersectIn(q1, q2, targetX, combinedScope) ==
    FinalCandidates(CandidatesOf(IntersectionRoots(q1, q2), q1, combinedScope), targetX)

solveIntersection(f1, f2, ps, targetX, scope) ==
    IF f1.id = f2.id THEN << >>
    ELSE IF ~(f1.type = "function" /\ f2.type = "function") THEN << >>
    ELSE IntersectIn(SubstParams(f1.expression, ps), SubstParams(f2.expression, ps),
                     targetX, scope @@ ParamScope(ps, Len(ps)))

\* nerdamer.solve lists the roots in an order and a form of its own: the
\* lists it may return for roots r are r, r backwards, and r with every
\* root named twice.
Reverse(s) == [k \in 1..Len(s) |-> s[Len(s) + 1 - k]]

CasAnswers(r) == {r, Reverse(r), r \o r}

\* solveIntersection with `roots` the list nerdamer.solve returned at line 269.
solveIntersectionOn(f1, f2, ps, targetX, scope, roots) ==
    IF f1.id = f2.id THEN << >>
    ELSE IF ~(f1.type = "function" /\ f2.type = "function") THEN << >>
    ELSE FinalCandidates(CandidatesOf(roots, SubstParams(f1.expression, ps),
                                      scope @@ ParamScope(ps, Len(ps))),
                         targetX)

\* The equation solveSymbolic hands to nerdamer.solve (lines 229, 232-233):
\* the expression for zeros, its derivative for min / max.
SymbolicRoots(q, type) ==
    IF type = "zeros" THEN CasSolve(q.c2, q.c1, q.k, q.s)
    ELSE CasSolve(0, 2 * q.c2, R(q.c1), NoSym)

\* solveSymbolic with `roots` the list nerdamer.solve returned.
solveSymbolicOn(expression, type, ps, roots) ==
    IF type \in {"zeros", "min", "max"}
        THEN ProcessAll(roots, SubstParams(expression, ps), type)
        ELSE << >>

(***************************************************************************)
(* 4.2 Fixed-point object resolver: calculateWorldPoints                   *)
(*                                                                         *)
(* A calculated point keeps id, x, y, label and analysisIndex (here the    *)
(* 1-based position of the object in activeAnalyses); the display fields   *)
(* (latex, color, size, ...) are not modelled.                             *)
(***************************************************************************)
MaxRounds == 5

Point(id, x, y, label, idx) ==
    [id |-> id, x |-> x, y |-> y, label |-> label, analysisIndex |-> idx]

HasPoint(pts, id) == \E k \in 1..Len(pts) : pts[k].id = id

\* Lines 472-473: the forEach callback on the object at n.
PushFreePoint(pts, an, n) ==
    IF an.type = "freePoint" /\ an.xExpr = << >> /\ an.yExpr = << >>
        THEN Append(pts, Point(an.id, OrZero(an.x), OrZero(an.y), an.label, n))
        ELSE pts

\* Lines 471-475: every freePoint without expressions, in list order.
RECURSIVE FreePoints(_, _)
FreePoints(analyses, n) ==
    IF n = 0 THEN << >>
    ELSE PushFreePoint(FreePoints(analyses, n - 1), analyses[n], n)

\* Lines 486-489.
PushIfFinite(pts, id, x, y, label, idx) ==
    IF x = Throw \/ y = Throw THEN pts
    ELSE IF x = Undefined \/ y = Undefined THEN pts
    ELSE IF isFinite(x) /\ isFinite(y) THEN Append(pts, Point(id, x, y, label, idx))
    ELSE pts

\* Lines 482-491: an object with xExpr or yExpr.
ResolveExpression(an, idx, pts, scope) ==
    PushIfFinite(pts, an.id,
                 IF an.xExpr # << >> THEN evaluate(sanitizeExpression(an.xExpr[1]), scope)
                 ELSE OrZero(an.x),
                 IF an.yExpr # << >> THEN evaluate(sanitizeExpression(an.yExpr[1]), scope)
                 ELSE OrZero(an.y),
                 an.label, idx)

\* Lines 500, 504.
BoundOr(val, default) ==
    IF val = Throw THEN Throw
    ELSE IF IsNumber(val) /\ ~isNaN(val) THEN val
    ELSE default

\* Lines 497-505: a bound that is set and evaluates to a number other than
\* NaN replaces the default; Throw when its evaluation throws.
RangeBound(bound, scope, default) ==
    IF bound = << >> THEN default
    ELSE BoundOr(evaluate(sanitizeExpression(bound[1]), scope), default)

\* A faulty pointOn_analysis: the bounds of the curve are not looked at.
PointOnAnywhere(an, idx, pts, f, scope, rMin, rMax) ==
    PushIfFinite(pts, an.id, an.x,
                 evaluate(sanitizeExpression(f.expression), ("x" :> an.x) @@ scope),
                 an.label, idx)

\* Lines 507-513 with the bounds rMin and rMax evaluated.
PointOnWithin(an, idx, pts, f, scope, rMin, rMax) ==
    IF rMin = Throw \/ rMax = Throw THEN pts
    ELSE IF RLt(an.x, rMin) \/ RLt(rMax, an.x) THEN pts
    ELSE PushIfFinite(pts, an.id, an.x,
                      evaluate(sanitizeExpression(f.expression), ("x" :> an.x) @@ scope),
                      an.label, idx)

\* Lines 494-505 with f the position of the curve, 0 when there is none.
PointOnCurve(an, idx, pts, fns, scope, f) ==
    IF f = 0 \/ an.x = Undefined THEN pts
    ELSE PointOnWithin(an, idx, pts, fns[f], scope,
                       RangeBound(fns[f].rangeMin, scope, NegInfinity),
                       RangeBound(fns[f].rangeMax, scope, Infinity))

\* Lines 492-516: pointOn_analysis.
ResolvePointOn(an, idx, pts, fns, scope) ==
    PointOnCurve(an, idx, pts, fns, scope, FindFunction(fns, an.funcId))

\* Lines 521-524.
PushFirst(an, idx, pts, results) ==
    IF Len(results) > 0
        THEN Append(pts, Point(an.id, results[1].x, results[1].y, an.label, idx))
        ELSE pts

\* Lines 518-520 with f1, f2 the positions of the curves.
IntersectionOf(an, idx, pts, fns, ps, scope, f1, f2) ==
    IF f1 = 0 \/ f2 = 0 THEN pts
    ELSE PushFirst(an, idx, pts, solveIntersection(fns[f1], fns[f2], ps, an.x, scope))

\* Lines 517-526: intersection_analysis.
ResolveIntersection(an, idx, pts, fns, ps, scope) ==
    IntersectionOf(an, idx, pts, fns, ps, scope,
                   FindFunction(fns, an.funcId), FindFunction(fns, an.funcId2))

\* Faulty sub-results: the id is the number of the result alone.
SubResultsUnprefixed(an, idx, resList, n) ==
    [k \in 1..n |-> Point(ToString(k - 1), resList[k].x, resList[k].y,
                          IF an.label # "" THEN an.label \o "_" \o ToString(k) ELSE "", idx)]

\* Lines 535-537: resList.forEach((res, i) => points.push({ id: `${an.id}-${i}`, ... }))
RECURSIVE SubResults(_, _, _, _)
SubResults(an, idx, resList, n) ==
    IF n = 0 THEN << >>
    ELSE Append(SubResults(an, idx, resList, n - 1),
                Point(an.id \o "-" \o ToString(n - 1), resList[n].x, resList[n].y,
                      IF an.label # "" THEN an.label \o "_" \o ToString(n) ELSE "", idx))

PushAll(an, idx, pts, resList) == pts \o SubResults(an, idx, resList, Len(resList))

\* Line 532.
PushResult(an, idx, pts, res) ==
    IF res # Undefined THEN Append(pts, Point(an.id, res[1].x, res[1].y, an.label, idx))
    ELSE pts

\* Lines 529-538 with f the position of the curve.
FuncAnalysisOf(an, idx, pts, fns, ps, scope, f) ==
    IF f = 0 THEN pts
    ELSE IF an.x # Undefined
        THEN PushResult(an, idx, pts,
                        solveClosest(fns[f].expression, an.subtype, an.x, ps, scope))
    ELSE PushAll(an, idx, pts, solveSymbolic(fns[f].expression, an.subtype, ps))

\* Lines 527-540: func_analysis.
ResolveFuncAnalysis(an, idx, pts, fns, ps, scope) ==
    FuncAnalysisOf(an, idx, pts, fns, ps, scope, FindFunction(fns, an.funcId))

\* Lines 479-480: the object is skipped when a point carries its id.
AlreadyResolved(an, pts) == HasPoint(pts, an.id)

\* Lines 482-540: the branch of the object.
ResolveBranch(an, idx, pts, fns, ps, scope) ==
    IF an.xExpr # << >> \/ an.yExpr # << >>
        THEN ResolveExpression(an, idx, pts, scope)
    ELSE IF an.type = "pointOn_analysis" /\ an.funcId # 0
        THEN ResolvePointOn(an, idx, pts, fns, scope)
    ELSE IF an.type = "intersection_analysis" /\ an.funcId # 0 /\ an.funcId2 # 0
        THEN ResolveIntersection(an, idx, pts, fns, ps, scope)
    ELSE IF an.type = "func_analysis" /\ an.funcId # 0 /\ an.subtype # ""
        THEN ResolveFuncAnalysis(an, idx, pts, fns, ps, scope)
    ELSE pts

\* Line 481 gave sc: an exception of createMathScope leaves the call.
ResolveIn(an, idx, pts, fns, ps, sc) ==
    IF sc.thrown THEN [thrown |-> TRUE, points |-> pts]
    ELSE [thrown |-> FALSE, points |-> ResolveBranch(an, idx, pts, fns, ps, sc.scope)]

\* Lines 478-541: the body of the inner forEach for the object at idx:
\* the new list of points, and whether an exception left the call.
ResolveObject(idx, pts, fns, ps, analyses) ==
    IF AlreadyResolved(analyses[idx], pts) THEN [thrown |-> FALSE, points |-> pts]
    ELSE ResolveIn(analyses[idx], idx, pts, fns, ps,
                   createMathScope(ps, pts, analyses, fns, {}, << >>))

RECURSIVE RoundFrom(_, _, _, _, _)
RoundNext(idx, r, fns, ps, analyses) ==
    IF r.thrown THEN r ELSE RoundFrom(idx + 1, r.points, fns, ps, analyses)

\* One round of the loop (lines 478-541) from object idx on.
RoundFrom(idx, pts, fns, ps, analyses) ==
    IF idx > Len(analyses) THEN [thrown |-> FALSE, points |-> pts]
    ELSE RoundNext(idx, ResolveObject(idx, pts, fns, ps, analyses), fns, ps, analyses)

RECURSIVE RoundsFrom(_, _, _, _, _)
\* Line 542 and the loop test.
RoundsNext(i, pts, r, fns, ps, analyses) ==
    IF r.thrown THEN r
    ELSE IF Len(r.points) = Len(pts) THEN r
    ELSE RoundsFrom(i + 1, r.points, fns, ps, analyses)

\* The loop `for (let i = 0; i < 5; i++)` from round i on.
RoundsFrom(i, pts, fns, ps, analyses) ==
    IF i >= MaxRounds THEN [thrown |-> FALSE, points |-> pts]
    ELSE RoundsNext(i, pts, RoundFrom(1, pts, fns, ps, analyses), fns, ps, analyses)

\* A faulty call: one round and no more.
calculateWorldPointsOneRound(fns, ps, analyses) ==
    RoundFrom(1, FreePoints(analyses, Len(analyses)), fns, ps, analyses)

\* calculateWorldPoints as one call: the returned list, or thrown.
calculateWorldPoints(fns, ps, analyses) ==
    RoundsFrom(0, FreePoints(analyses, Len(analyses)), fns, ps, analyses)

\* App.tsx:69-73: the memo catches an exception and gives [].
calculatedPointsOf(r) == IF r.thrown THEN << >> ELSE r.points

calculatedPoints(fns, ps, analyses) ==
    calculatedPointsOf(calculateWorldPoints(fns, ps, analyses))

(***************************************************************************)
(* 4.6 Cascade deletion: getObjectsToRemove                                *)
(***************************************************************************)
\* A faulty scan: the targetId of an object is not looked at.
ScanVerticesOnly(toRemove, obj) ==
    IF obj.id \in toRemove THEN toRemove
    ELSE IF \E k \in 1..Len(obj.vertices) : obj.vertices[k] \in toRemove
        THEN toRemove \cup {obj.id}
    ELSE toRemove

\* Lines 459-463: the forEach callback on one object.
ScanObject(toRemove, obj) ==
    IF obj.id \in toRemove THEN toRemove
    ELSE IF (\E k \in 1..Len(obj.vertices) : obj.vertices[k] \in toRemove)
            \/ (obj.targetId # "" /\ obj.targetId \in toRemove)
        THEN toRemove \cup {obj.id}
    ELSE toRemove

\* analyses.forEach of line 458 over the first n objects.
RECURSIVE Scan(_, _, _)
Scan(toRemove, analyses, n) ==
    IF n = 0 THEN toRemove
    ELSE ScanObject(Scan(toRemove, analyses, n - 1), analyses[n])

RECURSIVE ScanLoop(_, _)
\* A faulty loop: one scan only.
ScanOnce(toRemove, analyses, after) == after

\* `changed` is true exactly when the scan added an object.
ScanAgain(toRemove, analyses, after) ==
    IF after = toRemove THEN toRemove ELSE ScanLoop(after, analyses)

\* while (changed) { ... }
ScanLoop(toRemove, analyses) ==
    ScanAgain(toRemove, analyses, Scan(toRemove, analyses, Len(analyses)))

getObjectsToRemove(targetId, analyses) == ScanLoop({targetId}, analyses)

\* Array.prototype.filter
Filter(seq, Keep(_)) == SelectSeq(seq, Keep)

\* App.tsx:105-109: the new list of analyses.
removeAnalysisFrom(id, analyses, ids) ==
    LET Keep(a) == a.id \notin ids IN Filter(analyses, Keep)

(***************************************************************************)
(* The data model (types.ts)                                               *)
(***************************************************************************)
\* AnalysisObject: an absent optional field is Undefined (numbers), << >>
\* (xExpr, yExpr, vertices), "" (strings) or 0 (funcId, funcId2).
Obj(id, type, label) ==
    [id |-> id, type |-> type, subtype |-> "", label |-> label,
     x |-> Undefined, y |-> Undefined, xExpr |-> << >>, yExpr |-> << >>,
     vertices |-> << >>, targetId |-> "", funcId |-> 0, funcId2 |-> 0]

\* MathFunction
Func(id, name, expression) ==
    [id |-> id, name |-> name, expression |-> expression, type |-> "function",
     rangeMin |-> << >>, rangeMax |-> << >>]

\* MathParam
Param(name, value) == [name |-> name, value |-> value]

\* AppState (App.tsx:11-15)
AppState(fns, analyses, ps) ==
    [functions |-> fns, activeAnalyses |-> analyses, params |-> ps]

VARIABLES
    functions,       \* App state: MathFunction[]
    params,          \* App state: MathParam[]
    activeAnalyses,  \* App state: AnalysisObject[]
    history,         \* App state: AppState[]
    historyIndex,    \* App state: position in history, 1-based (source: 0-based)
    lineBuilder,     \* Canvas state: the first endpoint chosen with a line tool, or ""
    clock,           \* Date.now()
    pc,              \* position of the running calculateWorldPoints call
    points,          \* its local `points`
    i,               \* its round counter
    idx,             \* the position of the inner forEach (1-based)
    startCount,      \* its local `startCount`
    pass,            \* number of recomputations started
    last,            \* the inputs and the outcome of the recomputation before
    removed,         \* the ids the last removeAnalysis deleted
    before,          \* the id and the list the last removeAnalysis was called with
    input,           \* the arguments of a call of a solver or of the contour extractor
    output,          \* its locals while it runs and its result
    pending          \* the state updates queued in the current event turn

vars == <<functions, params, activeAnalyses, history, historyIndex, lineBuilder, clock,
          pc, points, i, idx, startCount, pass, last, removed, before,
          input, output, pending>>

sceneVars == <<functions, params, activeAnalyses>>
appVars == <<history, historyIndex, lineBuilder, clock>>
callVars == <<pc, points, i, idx, startCount>>
removalVars == <<removed, before>>
solverVars == <<input, output>>

Inputs == AppState(functions, activeAnalyses, params)

(***************************************************************************)
(* calculateWorldPoints, one step at a time                                *)
(***************************************************************************)
\* A faulty start of the call: the points of the call before are kept.
BeginKeepingPoints ==
    /\ pc = "idle"
    /\ points' = points \o FreePoints(activeAnalyses, Len(activeAnalyses))
    /\ i' = 0
    /\ idx' = 1
    /\ startCount' = Len(points')
    /\ pc' = "round"
    /\ UNCHANGED <<sceneVars, appVars, pass, last, removalVars, solverVars, pending>>

\* Lines 470-475: `let points = []` and the free points.
Begin ==
    /\ pc = "idle"
    /\ points' = FreePoints(activeAnalyses, Len(activeAnalyses))
    /\ i' = 0
    /\ idx' = 1
    /\ startCount' = Len(points')
    /\ pc' = "round"
    /\ UNCHANGED <<sceneVars, appVars, pass, last, removalVars, solverVars, pending>>

\* The outcome of the forEach callback: an exception leaves the call.
Resolved(r) ==
    /\ points' = r.points
    /\ pc' = IF r.thrown THEN "thrown" ELSE "round"

\* The outcome r of the callback on the points the round began with, added
\* to the points of the call.
OnRoundStart(r) ==
    [thrown |-> r.thrown,
     points |-> points \o SubSeq(r.points, startCount + 1, Len(r.points))]

\* A faulty forEach callback: the scope is built from the points the round
\* began with.
ResolveOnRoundStart ==
    /\ pc = "round"
    /\ idx <= Len(activeAnalyses)
    /\ Resolved(OnRoundStart(ResolveObject(idx, SubSeq(points, 1, startCount),
                                           functions, params, activeAnalyses)))
    /\ idx' = idx + 1
    /\ UNCHANGED <<sceneVars, appVars, i, startCount, pass, last, removalVars, solverVars, pending>>

\* Lines 478-541: the forEach callback for the object at idx.
Resolve ==
    /\ pc = "round"
    /\ idx <= Len(activeAnalyses)
    /\ Resolved(ResolveObject(idx, points, functions, params, activeAnalyses))
    /\ idx' = idx + 1
    /\ UNCHANGED <<sceneVars, appVars, i, startCount, pass, last, removalVars, solverVars, pending>>

\* A faulty end of a round: the loop has no cap.
EndRoundUncapped ==
    /\ pc = "round"
    /\ idx > Len(activeAnalyses)
    /\ IF Len(points) = startCount
           THEN /\ pc' = "done"
                /\ UNCHANGED <<i, idx, startCount>>
           ELSE /\ pc' = "round"
                /\ i' = i + 1
                /\ idx' = 1
                /\ startCount' = Len(points)
    /\ UNCHANGED <<sceneVars, appVars, points, pass, last, removalVars, solverVars, pending>>

\* Lines 476-477 and 542: the end of a round: break when no point was added,
\* otherwise i++ and the loop test i < 5.
EndRound ==
    /\ pc = "round"
    /\ idx > Len(activeAnalyses)
    /\ IF Len(points) = startCount \/ i + 1 >= MaxRounds
           THEN /\ pc' = "done"
                /\ UNCHANGED <<i, idx, startCount>>
           ELSE /\ pc' = "round"
                /\ i' = i + 1
                /\ idx' = 1
                /\ startCount' = Len(points)
    /\ UNCHANGED <<sceneVars, appVars, points, pass, last, removalVars, solverVars, pending>>

(***************************************************************************)
(* App.tsx: updateState and the history                                    *)
(***************************************************************************)
HistoryCap == 50
MaxHistory == 4

\* Lines 59-61: history.slice(0, historyIndex + 1), push, shift above 50 entries.
Capped(h) == IF Len(h) > HistoryCap THEN Tail(h) ELSE h

Pushed(state) == Capped(Append(SubSeq(history, 1, historyIndex), state))

\* Lines 57-63: if (commit) { ... setHistory(newHistory); setHistoryIndex(length - 1) }
Commit(state) ==
    /\ Len(history) < MaxHistory
    /\ history' = Pushed(state)
    /\ historyIndex' = Len(history')

\* Lines 50-64: updateState(updates, commit).
updateState(fns, analyses, ps, commit) ==
    /\ functions' = fns
    /\ activeAnalyses' = analyses
    /\ params' = ps
    /\ IF commit THEN Commit(AppState(fns, analyses, ps))
       ELSE UNCHANGED <<history, historyIndex>>

(***************************************************************************)
(* Recomputation: App.tsx useMemo (lines 69-73) calls calculateWorldPoints *)
(* again whenever functions, params, activeAnalyses, precision, view or    *)
(* canvasSize change.                                                      *)
(***************************************************************************)
MaxPasses == 2

NoLast == << >>

\* A faulty memo: a change of a dependency does not start the computation,
\* the points computed before stay.
RecomputeNever ==
    /\ pc \in {"done", "thrown"}
    /\ pass < MaxPasses
    /\ last' = <<[inputs |-> Inputs, points |-> points, pc |-> pc]>>
    /\ pass' = pass + 1
    /\ UNCHANGED <<pc, points, i, idx, startCount, lineBuilder, clock, removalVars, solverVars, pending>>

\* The memo is computed again: the outcome before is kept in `last`.
Recompute ==
    /\ pc \in {"done", "thrown"}
    /\ pass < MaxPasses
    /\ last' = <<[inputs |-> Inputs, points |-> points, pc |-> pc]>>
    /\ pass' = pass + 1
    /\ pc' = "idle"
    /\ UNCHANGED <<points, i, idx, startCount, lineBuilder, clock, removalVars, solverVars, pending>>

\* A change of view, canvasSize or precision: the same three lists again.
setView ==
    /\ Recompute
    /\ UNCHANGED <<sceneVars, history, historyIndex>>

\* params.map(p => p.name === n ? { ...p, value: v } : p)
WithParam(ps, n, v) ==
    [k \in 1..Len(ps) |-> IF ps[k].name = n THEN [ps[k] EXCEPT !.value = v] ELSE ps[k]]

ParamValues == {-4, -1, 0}

\* App.tsx:299 onUpdateParam(n, v) for a known name: no commit.
onUpdateParam ==
    \E k \in 1..Len(params), v \in ParamValues :
        /\ params[k].value # R(v)
        /\ Recompute
        /\ updateState(functions, activeAnalyses, WithParam(params, params[k].name, R(v)),
                       FALSE)

\* activeAnalyses.map(a => String(a.id) === id ? (a.type === 'freePoint' ? {...a, x, y} : {...a, x}) : a)
WithCoords(analyses, id, x, y) ==
    [j \in 1..Len(analyses) |->
        IF analyses[j].id = id
            THEN IF analyses[j].type = "freePoint"
                     THEN [analyses[j] EXCEPT !.x = x, !.y = y]
                     ELSE [analyses[j] EXCEPT !.x = x]
            ELSE analyses[j]]

CoordValues == {-2, 1}

\* App.tsx:301 onUpdateAnalysisCoords(id, x, y) as the coordinate editor of
\* the Sidebar (lines 221-228) calls it: on a freePoint or a pointOn_analysis
\* without expressions, with the x typed and y = 0.
onUpdateAnalysisCoords ==
    \E k \in 1..Len(activeAnalyses), x \in CoordValues :
        /\ activeAnalyses[k].type \in {"freePoint", "pointOn_analysis"}
        /\ activeAnalyses[k].xExpr = << >> /\ activeAnalyses[k].yExpr = << >>
        /\ activeAnalyses[k].x # R(x)
        /\ Recompute
        /\ updateState(functions, WithCoords(activeAnalyses, activeAnalyses[k].id, R(x), R(0)),
                       params, TRUE)

\* App.tsx:80-84: the points whose func_analysis has an x more than 1e-4 away.
NeedsSync(p) ==
    /\ activeAnalyses[p.analysisIndex].type = "func_analysis"
    /\ activeAnalyses[p.analysisIndex].x # Undefined
    /\ AbsOver(RSub(activeAnalyses[p.analysisIndex].x, p.x), 10000)

\* updates.set(String(analysis.id), cp.x): the last point of an id wins.
SyncedX(a, pts) ==
    IF \E k \in 1..Len(pts) :
           activeAnalyses[pts[k].analysisIndex].id = a.id /\ NeedsSync(pts[k])
        THEN [a EXCEPT !.x =
                 pts[CHOOSE k \in 1..Len(pts) :
                         /\ activeAnalyses[pts[k].analysisIndex].id = a.id /\ NeedsSync(pts[k])
                         /\ \A j \in (k + 1)..Len(pts) :
                                ~(activeAnalyses[pts[j].analysisIndex].id = a.id
                                  /\ NeedsSync(pts[j]))].x]
        ELSE a

\* App.tsx:75-93: the effect that moves the anchor of a func_analysis to the
\* point found (setActiveAnalyses, no commit).
syncPoints ==
    /\ pc = "done"
    /\ \E k \in 1..Len(points) : NeedsSync(points[k])
    /\ Recompute
    /\ activeAnalyses' = [j \in 1..Len(activeAnalyses) |-> SyncedX(activeAnalyses[j], points)]
    /\ UNCHANGED <<functions, params, history, historyIndex>>

(***************************************************************************)
(* App.tsx: removal, typed assignments, undo and redo                      *)
(***************************************************************************)
\* App.tsx:106-107 with ids = IDsToRemove.
RemoveIds(id, ids) ==
    /\ removed' = ids
    /\ before' = <<[id |-> id, analyses |-> activeAnalyses]>>
    /\ updateState(functions, removeAnalysisFrom(id, activeAnalyses, ids), params, TRUE)

DanglingId == "99"

\* App.tsx:105-109 removeAnalysis(id): the id of an object of the list, or
\* of one that is no longer there.
removeAnalysis ==
    \E id \in {activeAnalyses[k].id : k \in 1..Len(activeAnalyses)} \cup {DanglingId} :
        /\ RemoveIds(id, getObjectsToRemove(id, activeAnalyses))
        /\ UNCHANGED <<lineBuilder, clock, callVars, pass, last, solverVars, pending>>

\* App.tsx:298 onRemoveFunction(id): functions.filter(f => f.id !== id), commit.
onRemoveFunction ==
    \E k \in 1..Len(functions) :
        /\ LET Keep(f) == f.id # functions[k].id
           IN  updateState(Filter(functions, Keep), activeAnalyses, params, TRUE)
        /\ UNCHANGED <<lineBuilder, clock, callVars, pass, last, removalVars, solverVars, pending>>

\* [...activeAnalyses.filter(a => a.label !== name), obj]
Replacing(analyses, name, obj) ==
    LET Keep(a) == a.label # name IN Append(Filter(analyses, Keep), obj)

Labels(analyses) == {analyses[k].label : k \in 1..Len(analyses)}

\* activeAnalyses.find(a => a.label === targetLabel)
FindLabel(analyses, label) == FirstIndex(analyses, "label", label)

\* The operations that read Date.now() stop at MaxClock.
MaxClock == 3

AssignedPoints == {"A", "B"}

\* App.tsx:216-220: the input `A = (1, 2)`.
pointAssignment ==
    \E name \in AssignedPoints :
        /\ clock <= MaxClock
        /\ updateState(functions,
                       Replacing(activeAnalyses, name,
                                 [Obj(ToString(clock), "freePoint", name)
                                     EXCEPT !.xExpr = <<Const(1)>>, !.yExpr = <<Const(2)>>]),
                       params, TRUE)
        /\ clock' = clock + 1
        /\ UNCHANGED <<lineBuilder, callVars, pass, last, removalVars, solverVars, pending>>

AssignedSlopes == {"m", "r"}

\* App.tsx:206-214: the input `m = slope(r)`.
slopeAssignment ==
    \E name \in AssignedSlopes, targetLabel \in Labels(activeAnalyses) \ {""} :
        /\ clock <= MaxClock
        /\ updateState(functions,
                       Replacing(activeAnalyses, name,
                                 [Obj(ToString(clock), "slope_analysis", name)
                                     EXCEPT !.targetId =
                                         activeAnalyses[FindLabel(activeAnalyses, targetLabel)].id]),
                       params, TRUE)
        /\ clock' = clock + 1
        /\ UNCHANGED <<lineBuilder, callVars, pass, last, removalVars, solverVars, pending>>

\* setFunctions / setActiveAnalyses / setParams / setHistoryIndex of lines 66-67.
Restore(k) ==
    /\ functions' = history[k].functions
    /\ activeAnalyses' = history[k].activeAnalyses
    /\ params' = history[k].params
    /\ historyIndex' = k
    /\ UNCHANGED <<history, lineBuilder, clock, callVars, pass, last, removalVars, solverVars, pending>>

\* App.tsx:66
handleUndo == historyIndex > 1 /\ Restore(historyIndex - 1)

\* App.tsx:67
handleRedo == historyIndex < Len(history) /\ Restore(historyIndex + 1)

(***************************************************************************)
(* Canvas.tsx: the tools                                                   *)
(***************************************************************************)
PointLabels == <<"A", "B", "C", "D", "E", "F">>
LineLabels == <<"r", "s", "t", "u", "v", "w">>

\* getNextPointLabel / getNextLineLabel: the first label of the alphabet
\* that no object carries.
NextLabel(alphabet, used) ==
    alphabet[CHOOSE k \in 1..Len(alphabet) :
                 alphabet[k] \notin used /\ \A j \in 1..(k - 1) : alphabet[j] \in used]

getNextPointLabel(used) == NextLabel(PointLabels, used)
getNextLineLabel(used) == NextLabel(LineLabels, used)

\* The points on the canvas (displayPoints) and the lines drawn between them.
PointHits(pts) == {activeAnalyses[pts[k].analysisIndex].id : k \in 1..Len(pts)}

LineHits(pts) ==
    {activeAnalyses[k].id : k \in
        {j \in 1..Len(activeAnalyses) :
            /\ activeAnalyses[j].type \in LineTypes
            /\ Len(activeAnalyses[j].vertices) = 2
            /\ HasPoint(pts, activeAnalyses[j].vertices[1])
            /\ HasPoint(pts, activeAnalyses[j].vertices[2])}}

\* getClosestObject (Canvas.tsx:136-160): the analyses a click can hit.
HitsOf(pts) == PointHits(pts) \cup LineHits(pts)

Hits == HitsOf(calculatedPoints(functions, params, activeAnalyses))

ClickXs == {0, 2}

\* setActiveAnalyses(prev => [...prev, obj]); onHistoryCommit(): the commit
\* is updateState({}, true) of the render before, so it pushes the lists
\* as they were before the click.
AddAndCommit(analyses) ==
    /\ activeAnalyses' = analyses
    /\ Commit(Inputs)
    /\ UNCHANGED <<functions, params>>

\* Canvas.tsx:303-315: the freePoint tool.
freePointTool ==
    \E x \in ClickXs :
        /\ clock <= MaxClock
        /\ AddAndCommit(Append(activeAnalyses,
               [Obj(ToString(clock), "freePoint", getNextPointLabel(Labels(activeAnalyses)))
                   EXCEPT !.x = R(x), !.y = R(1)]))
        /\ clock' = clock + 1
        /\ UNCHANGED <<lineBuilder, callVars, pass, last, removalVars, solverVars, pending>>

\* Canvas.tsx:317-321: the list after the click, with the new point when no
\* analysis was hit.
WithClicked(hit, x) ==
    IF hit = ""
        THEN Append(activeAnalyses,
                    [Obj(ToString(clock), "freePoint", getNextPointLabel(Labels(activeAnalyses)))
                        EXCEPT !.x = R(x), !.y = R(1)])
        ELSE activeAnalyses

\* Canvas.tsx:322-323 with targetId the point clicked and now the second
\* reading of Date.now().
LineClick(tool, targetId, analyses, now) ==
    /\ IF lineBuilder = ""
           THEN /\ lineBuilder' = targetId
                /\ activeAnalyses' = analyses
                /\ UNCHANGED <<functions, params, history, historyIndex>>
           ELSE /\ lineBuilder' = ""
                /\ AddAndCommit(Append(analyses,
                       [Obj(ToString(now), tool, getNextLineLabel(Labels(activeAnalyses)))
                           EXCEPT !.vertices = <<lineBuilder, targetId>>]))
    /\ clock' = now + 1

LineTools == {"line", "segment"}

\* Canvas.tsx:316-323: the line, ray and segment tools.  The two readings of
\* Date.now() in one handler give the same millisecond or the next.
lineTool ==
    \E tool \in LineTools, hit \in Hits \cup {""}, x \in ClickXs, now \in {clock, clock + 1} :
        /\ clock <= MaxClock
        /\ LineClick(tool, IF hit = "" THEN ToString(clock) ELSE hit, WithClicked(hit, x), now)
        /\ UNCHANGED <<callVars, pass, last, removalVars, solverVars, pending>>

\* Canvas.tsx:337-338: the pointOn tool on a curve.
pointOnTool ==
    \E f \in 1..Len(functions), x \in ClickXs :
        /\ clock <= MaxClock
        /\ AddAndCommit(Append(activeAnalyses,
               [Obj(ToString(clock), "pointOn_analysis", getNextPointLabel(Labels(activeAnalyses)))
                   EXCEPT !.funcId = functions[f].id, !.x = R(x)]))
        /\ clock' = clock + 1
        /\ UNCHANGED <<lineBuilder, callVars, pass, last, removalVars, solverVars, pending>>

\* Canvas.tsx:331: the tangent tool on a curve.
TangentOnCurve ==
    \E f \in 1..Len(functions), x \in ClickXs :
        AddAndCommit(Append(activeAnalyses,
            [Obj(ToString(clock), "tangent_analysis", getNextLineLabel(Labels(activeAnalyses)))
                EXCEPT !.funcId = functions[f].id, !.x = R(x)]))

\* Canvas.tsx:332: the tangent tool on a point of a curve.
TangentOnPoint ==
    \E k \in 1..Len(activeAnalyses) :
        /\ activeAnalyses[k].id \in Hits
        /\ FindAnalysis(activeAnalyses, activeAnalyses[k].id) = k
        /\ activeAnalyses[k].type = "pointOn_analysis"
        /\ activeAnalyses[k].funcId # 0
        /\ AddAndCommit(Append(activeAnalyses,
               [Obj(ToString(clock), "tangent_analysis", getNextLineLabel(Labels(activeAnalyses)))
                   EXCEPT !.funcId = activeAnalyses[k].funcId,
                          !.vertices = <<activeAnalyses[k].id>>]))

\* Canvas.tsx:329-332
tangentTool ==
    /\ clock <= MaxClock
    /\ TangentOnCurve \/ TangentOnPoint
    /\ clock' = clock + 1
    /\ UNCHANGED <<lineBuilder, callVars, pass, last, removalVars, solverVars, pending>>

(***************************************************************************)
(* Scenes                                                                  *)
(***************************************************************************)
MaxObjects == 3

\* Date.now().toString(): a string of digits.
IdAt(k) == ToString(k)

Next1(k, n) == (k % n) + 1
Prev1(k, n) == ((k + n - 2) % n) + 1

FreePointAt(k) == [Obj(IdAt(k), "freePoint", PointLabels[k]) EXCEPT !.x = R(k), !.y = R(2 * k)]

\* A = (e, 0): a point given by an expression (handleGeneralInput, App.tsx:218).
ExprPointAt(k, e) == [Obj(IdAt(k), "freePoint", PointLabels[k]) EXCEPT !.xExpr = <<e>>]

\* A = (0, e)
ExprPointY(k, e) == [Obj(IdAt(k), "freePoint", PointLabels[k]) EXCEPT !.yExpr = <<e>>]

FuncAnalysisAt(k, subtype, funcId, x) ==
    [Obj(IdAt(k), "func_analysis", "R") EXCEPT !.subtype = subtype, !.funcId = funcId, !.x = x]

PointOnAt(k, funcId, x) ==
    [Obj(IdAt(k), "pointOn_analysis", PointLabels[k]) EXCEPT !.funcId = funcId, !.x = x]

IntersectionAt(k, f1, f2, x) ==
    [Obj(IdAt(k), "intersection_analysis", "I") EXCEPT !.funcId = f1, !.funcId2 = f2, !.x = x]

LineAt(k, vertices) == [Obj(IdAt(k), "line", LineLabels[k]) EXCEPT !.vertices = vertices]

SlopeAt(k, targetId) == [Obj(IdAt(k), "slope_analysis", LineLabels[k]) EXCEPT !.targetId = targetId]

TangentAt1(k, funcId, x) ==
    [Obj(IdAt(k), "tangent_analysis", LineLabels[k]) EXCEPT !.funcId = funcId, !.x = x]

\* The scenes of 1..max objects over a family of templates T(k, n): the
\* objects that may stand at position k of a scene of n objects.
RECURSIVE ScenesOfLength(_, _, _)
ScenesOfLength(T(_, _), n, k) ==
    IF k = 0 THEN { << >> }
    ELSE { Append(sc, o) : sc \in ScenesOfLength(T, n, k - 1), o \in T(k, n) }

Scenes(T(_, _), max) == UNION { ScenesOfLength(T, n, n) : n \in 1..max }

InitWith(fs, ps, scenes) ==
    /\ functions = fs
    /\ params = ps
    /\ activeAnalyses \in scenes
    /\ history = <<AppState(fs, activeAnalyses, ps)>>
    /\ historyIndex = 1
    /\ lineBuilder = ""
    /\ clock = Len(activeAnalyses) + 1
    /\ pc = "idle"
    /\ points = << >>
    /\ i = 0
    /\ idx = 1
    /\ startCount = 0
    /\ pass = 1
    /\ last = NoLast
    /\ removed = {}
    /\ before = << >>
    /\ input = << >>
    /\ output = << >>
    /\ pending = << >>

(***************************************************************************)
(* Spec: the resolver on scenes of points and analyses of curves, computed *)
(* again after a change of view, of a parameter or of a coordinate.        *)
(***************************************************************************)
\* The curves of the scenes: f(x) = x, g(x) = x^2, h(x) = x^2 + a on [a, 0].
SceneFunctions ==
    << Func(1, "f", Poly(0, 1, 0, NoSym)),
       Func(2, "g", Poly(1, 0, 0, NoSym)),
       [Func(3, "h", Poly(1, 0, 0, Name("a")))
           EXCEPT !.rangeMin = <<Ref(Name("a"), 0)>>, !.rangeMax = <<Const(0)>>] >>

SceneParams == << Param("a", R(-1)) >>

\* An id of a curve that does not exist.
DanglingFunc == Len(SceneFunctions) + 74

AnalysisTemplates(k, n) ==
    { FreePointAt(k),
      ExprPointAt(k, Ref(Name("x_" \o PointLabels[Next1(k, n)]), 1)),
      ExprPointAt(k, Ref(Name("x_R_1"), 0)),
      FuncAnalysisAt(k, "zeros", 3, Undefined),
      FuncAnalysisAt(k, "min", 2, R(1)),
      FuncAnalysisAt(k, "zeros", DanglingFunc, Undefined),
      PointOnAt(k, 3, R(-1)),
      PointOnAt(k, 3, R(-2)),
      IntersectionAt(k, 1, 2, R(1)) }

Init == InitWith(SceneFunctions, SceneParams, Scenes(AnalysisTemplates, MaxObjects))

Next ==
    \/ Begin
    \/ Resolve
    \/ EndRound
    \/ setView
    \/ onUpdateParam
    \/ onUpdateAnalysisCoords
    \/ syncPoints

Spec == Init /\ [][Next]_vars

(***************************************************************************)
(* SpecCycle: one call of the resolver on scenes of points given by        *)
(* expressions that name each other's coordinates.                         *)
(***************************************************************************)
CycleTemplates(k, n) ==
    { FreePointAt(k),
      ExprPointAt(k, Const(3)),
      ExprPointAt(k, Ref(Name("x_" \o PointLabels[Next1(k, n)]), 1)),
      ExprPointAt(k, Ref(Dot(PointLabels[Next1(k, n)], "x"), 0)),
      ExprPointY(k, Ref(Call("y", PointLabels[Prev1(k, n)]), 0)) }

InitCycle == InitWith(SceneFunctions, SceneParams, Scenes(CycleTemplates, MaxObjects))

NextCall ==
    \/ Begin
    \/ Resolve
    \/ EndRound

SpecCycle == InitCycle /\ [][NextCall]_vars

(***************************************************************************)
(* SpecSlope: one call of the resolver on scenes of lines, tangents and    *)
(* slope values.                                                           *)
(***************************************************************************)
\* f(x) = x^2 + s, g(x) = x + r, h(x) = x: the curves f and g mention the
\* slope labels of the objects at positions 2 and 1.
SlopeFunctions ==
    << Func(1, "f", Poly(1, 0, 0, Name("s"))),
       Func(2, "g", Poly(0, 1, 0, Name("r"))),
       Func(3, "h", Poly(0, 1, 0, NoSym)) >>

SlopeTemplates(k, n) ==
    { FreePointAt(k),
      LineAt(k, <<IdAt(1), IdAt(2)>>),
      LineAt(k, <<IdAt(1)>>),
      SlopeAt(k, IdAt(k)),
      SlopeAt(k, IdAt(Next1(k, n))),
      SlopeAt(k, DanglingId),
      TangentAt1(k, 1, R(1)),
      TangentAt1(k, 2, R(1)),
      ExprPointAt(k, Ref(Name("m_" \o LineLabels[Next1(k, n)]), 0)) }

InitSlope == InitWith(SlopeFunctions, SceneParams, Scenes(SlopeTemplates, MaxObjects))

SpecSlope == InitSlope /\ [][NextCall]_vars

(***************************************************************************)
(* SpecPrune: removals on scenes of points, lines, tangents and slope      *)
(* values that refer to each other, cycles included.                       *)
(***************************************************************************)
MaxPruneObjects == 4

PruneTemplates(k, n) ==
    { FreePointAt(k),
      LineAt(k, <<IdAt(Prev1(k, n)), IdAt(Next1(k, n))>>),
      LineAt(k, <<IdAt(1), IdAt(2)>>),
      SlopeAt(k, IdAt(Next1(k, n))),
      SlopeAt(k, IdAt(Prev1(k, n))),
      SlopeAt(k, IdAt(k)) }

InitPrune == InitWith(SceneFunctions, SceneParams, Scenes(PruneTemplates, MaxPruneObjects))

NextPrune == removeAnalysis

SpecPrune == InitPrune /\ [][NextPrune]_vars

(***************************************************************************)
(* SpecApp: the operations of the application from its first state.        *)
(***************************************************************************)
\* constants INITIAL_FUNCTIONS: f(x) = sin(x), id 1.  The operations below
\* use of a curve that it exists and is finite at every x; the curve x
\* stands for it.
INITIAL_FUNCTIONS == << Func(1, "f", Poly(0, 1, 0, NoSym)) >>

\* constants INITIAL_PARAMS: a = 1.
INITIAL_PARAMS == << Param("a", R(1)) >>

InitApp == InitWith(INITIAL_FUNCTIONS, INITIAL_PARAMS, { << >> })

NextApp ==
    \/ freePointTool
    \/ lineTool
    \/ pointOnTool
    \/ tangentTool
    \/ removeAnalysis
    \/ onRemoveFunction
    \/ pointAssignment
    \/ slopeAssignment
    \/ handleUndo
    \/ handleRedo

SpecApp == InitApp /\ [][NextApp]_vars

(***************************************************************************)
(* SpecScope: one call of the resolver on scenes of two points, a line or  *)
(* a tangent over them, and slope values that target it.                   *)
(***************************************************************************)
MaxScopeObjects == 4

ScopeTemplates(k, n) ==
    IF k = 1 THEN { FreePointAt(1), ExprPointAt(1, Ref(Name("x_B"), 1)) }
    ELSE IF k = 2
        THEN { FreePointAt(2),
               [FreePointAt(2) EXCEPT !.x = R(1)],
               ExprPointAt(2, Ref(Name("x_C"), 0)) }
    ELSE IF k = 3
        THEN { LineAt(3, <<IdAt(1), IdAt(2)>>),
               [LineAt(3, <<IdAt(2), IdAt(1)>>) EXCEPT !.type = "segment"],
               LineAt(3, <<IdAt(1)>>),
               TangentAt1(3, 3, R(1)),
               TangentAt1(3, 1, R(1)) }
    ELSE { SlopeAt(k, IdAt(k - 1)),
           SlopeAt(k, IdAt(k)),
           SlopeAt(k, IdAt(1)),
           SlopeAt(k, DanglingId),
           ExprPointAt(k, Ref(Name("m_" \o LineLabels[k - 1]), 0)) }

InitScope == InitWith(SlopeFunctions, SceneParams, Scenes(ScopeTemplates, MaxScopeObjects))

SpecScope == InitScope /\ [][NextCall]_vars

(***************************************************************************)
(* SpecIntersection: calls of solveIntersection on pairs of curves, with   *)
(* and without nearX.                                                      *)
(***************************************************************************)
\* x, x^2, x^2 - 6x, -8, 16, x + b (b names nothing), and an implicit curve.
IntersectionCurves ==
    { Func(1, "f", Poly(0, 1, 0, NoSym)),
      Func(2, "g", Poly(1, 0, 0, NoSym)),
      Func(3, "h", Poly(1, -6, 0, NoSym)),
      Func(4, "p", Const(-8)),
      Func(5, "q", Const(16)),
      Func(6, "r", Poly(0, 1, 0, Name("b"))),
      [Func(7, "c", Poly(0, 1, 0, NoSym)) EXCEPT !.type = "implicit"] }

NearXs == {Undefined, R(0), <<9, 10>>, <<1, 2>>, R(3), R(6), R(12), R(13), R(-5)}

\* The roots of f1 - f2 = 0 after the substitution of the parameters.
RootsOf(f1, f2, ps) ==
    IntersectionRoots(SubstParams(f1.expression, ps), SubstParams(f2.expression, ps))

InitSolver ==
    /\ functions = << >>
    /\ params = SceneParams
    /\ activeAnalyses = << >>
    /\ history = <<AppState(functions, activeAnalyses, params)>>
    /\ historyIndex = 1
    /\ lineBuilder = ""
    /\ clock = 1
    /\ pc = "idle"
    /\ points = << >>
    /\ i = 0
    /\ idx = 1
    /\ startCount = 0
    /\ pass = 1
    /\ last = NoLast
    /\ removed = {}
    /\ before = << >>
    /\ output = << >>
    /\ pending = << >>

InitIntersection ==
    /\ InitSolver
    /\ \E f1 \in IntersectionCurves, f2 \in IntersectionCurves, targetX \in NearXs :
           \E roots \in CasAnswers(RootsOf(f1, f2, SceneParams)) :
               input = [f1 |-> f1, f2 |-> f2, targetX |-> targetX, roots |-> roots]

\* One call solveIntersection(f1, f2, params, precision, bounds, targetX, {}).
callSolveIntersection ==
    /\ output = << >>
    /\ output' = <<solveIntersectionOn(input.f1, input.f2, params, input.targetX, << >>,
                                        input.roots)>>
    /\ UNCHANGED <<sceneVars, appVars, callVars, pass, last, removalVars, input, pending>>

SpecIntersection == InitIntersection /\ [][callSolveIntersection]_vars

(***************************************************************************)
(* SpecSymbolic: calls of solveSymbolic for zeros, minima and maxima.      *)
(***************************************************************************)
\* x^2 + a, -(x^2), x^2 - 6x, x, x^2, x^2 + b (b names nothing), 3, x^2 - 4,
\* 2x + 4, -(x^2) + 4x.
SymbolicCurves ==
    { Poly(1, 0, 0, Name("a")), Poly(-1, 0, 0, NoSym), Poly(1, -6, 0, NoSym),
      Poly(0, 1, 0, NoSym), Poly(1, 0, 0, NoSym), Poly(1, 0, 0, Name("b")),
      Const(3), Poly(1, 0, -4, NoSym), Poly(0, 2, 4, NoSym), Poly(-1, 4, 0, NoSym) }

Subtypes == {"zeros", "min", "max"}

InitSymbolic ==
    /\ InitSolver
    /\ \E expression \in SymbolicCurves, type \in Subtypes :
           \E roots \in CasAnswers(SymbolicRoots(SubstParams(expression, SceneParams), type)) :
               input = [expression |-> expression, type |-> type, roots |-> roots]

\* One call solveSymbolic(expression, type, params, precision).
callSolveSymbolic ==
    /\ output = << >>
    /\ output' = <<solveSymbolicOn(input.expression, input.type, params, input.roots)>>
    /\ UNCHANGED <<sceneVars, appVars, callVars, pass, last, removalVars, input, pending>>

SpecSymbolic == InitSymbolic /\ [][callSolveSymbolic]_vars

(***************************************************************************)
(* solveClosest, one iteration at a time.  `output` holds its locals:      *)
(* currentX, found, the loop variable i, the number of loop bodies run,    *)
(* the position in the function and the value returned.                    *)
(***************************************************************************)
Locals(currentX, found, n, iterations, at, result) ==
    <<[currentX |-> currentX, found |-> found, i |-> n, iterations |-> iterations,
       at |-> at, result |-> result]>>

\* Lines 160-166: let currentX = targetX; let found = false; i = 0.
NewtonBegin ==
    /\ output = << >>
    /\ output' = Locals(input.targetX, FALSE, 0, 0, "loop", Undefined)
    /\ UNCHANGED <<sceneVars, appVars, callVars, pass, last, removalVars, input, pending>>

\* Lines 175-177 with nextX.
IterateMove(st, nextX) ==
    IF AbsBelow(RSub(nextX, st.currentX), 1000000000)
        THEN Locals(nextX, TRUE, st.i, st.iterations + 1, "after", Undefined)
    ELSE IF AbsAbove(nextX, 1000000)
        THEN Locals(st.currentX, FALSE, st.i, st.iterations + 1, "after", Undefined)
    ELSE Locals(nextX, FALSE, st.i + 1, st.iterations + 1, "loop", Undefined)

\* Lines 168-174: the body of the loop with y = g(currentX) and dg.
IterateBody(st, y, dg) ==
    IF isNaN(y) THEN Locals(st.currentX, FALSE, st.i, st.iterations + 1, "after", Undefined)
    ELSE IF AbsBelow(y, 10000000)
        THEN Locals(st.currentX, TRUE, st.i, st.iterations + 1, "after", Undefined)
    ELSE IF AbsBelow(dg, 1000000000)
        THEN Locals(st.currentX, FALSE, st.i, st.iterations + 1, "after", Undefined)
    ELSE IterateMove(st, RSub(st.currentX, RDiv(y, dg)))

\* One pass through the body of `for (let i = 0; i < 30; i++)`.
NewtonIterate ==
    /\ output # << >>
    /\ output[1].at = "loop"
    /\ output[1].i < NewtonIterations
    /\ output' = IterateBody(output[1],
                             ClosestG(input.expression, input.type, params, << >>,
                                      output[1].currentX),
                             ClosestDg(input.expression, input.type, output[1].currentX))
    /\ UNCHANGED <<sceneVars, appVars, callVars, pass, last, removalVars, input, pending>>

\* The loop test i < 30 fails.
NewtonExit ==
    /\ output # << >>
    /\ output[1].at = "loop"
    /\ output[1].i >= NewtonIterations
    /\ output' = <<[output[1] EXCEPT !.at = "after"]>>
    /\ UNCHANGED <<sceneVars, appVars, callVars, pass, last, removalVars, input, pending>>

\* Lines 179-194: the value returned, Undefined for null.
NewtonReturn ==
    /\ output # << >>
    /\ output[1].at = "after"
    /\ output' = <<[output[1] EXCEPT
                       !.at = "returned",
                       !.result = ClosestAfter(input.expression, input.type, params, << >>,
                                               [x |-> output[1].currentX,
                                                found |-> output[1].found])]>>
    /\ UNCHANGED <<sceneVars, appVars, callVars, pass, last, removalVars, input, pending>>

NextNewton ==
    \/ NewtonBegin
    \/ NewtonIterate
    \/ NewtonExit
    \/ NewtonReturn

(***************************************************************************)
(* SpecNewton: calls of solveClosest for zeros, minima and maxima.         *)
(***************************************************************************)
\* -(x^2), x^2, x^2 + 3, 2x + 4, x + b (b names nothing), 3, x^2 / 250000,
\* -(x^2) / 250000, x^2 / 100000, 0.0005.
NewtonCurves ==
    { Poly(-1, 0, 0, NoSym), Poly(1, 0, 0, NoSym), Poly(1, 0, 3, NoSym),
      Poly(0, 2, 4, NoSym), Poly(0, 1, 0, Name("b")), Const(3),
      Scaled(Poly(1, 0, 0, NoSym), 250000), Scaled(Poly(-1, 0, 0, NoSym), 250000),
      Scaled(Poly(1, 0, 0, NoSym), 100000), Scaled(Const(1), 2000) }

TargetXs == {R(1), R(-1), R(0), R(3)}

\* x^2 + 0.0005, which has no zero, looked at from its vertex.
NewtonVertexCurves == { Scaled(Poly(2000, 0, 1, NoSym), 2000) }

InitNewton ==
    /\ InitSolver
    /\ \E type \in Subtypes :
           \/ \E expression \in NewtonCurves, targetX \in TargetXs :
                  input = [expression |-> expression, type |-> type, targetX |-> targetX]
           \/ \E expression \in NewtonVertexCurves :
                  input = [expression |-> expression, type |-> type, targetX |-> R(0)]

SpecNewton == InitNewton /\ [][NextNewton]_vars

(***************************************************************************)
(* SpecWork: one call of the resolver and one call of solveClosest.        *)
(***************************************************************************)
MaxWorkObjects == 2

WorkTemplates(k, n) ==
    { FreePointAt(k),
      ExprPointAt(k, Ref(Name("x_" \o PointLabels[Next1(k, n)]), 1)),
      FuncAnalysisAt(k, "zeros", 3, Undefined),
      FuncAnalysisAt(k, "min", 2, R(1)) }

\* x^2 + 3 from 1 (the iteration never settles), x^2 from 1, -(x^2) from 1.
WorkInputs ==
    { [expression |-> Poly(1, 0, 3, NoSym), type |-> "zeros", targetX |-> R(1)],
      [expression |-> Poly(1, 0, 0, NoSym), type |-> "zeros", targetX |-> R(1)],
      [expression |-> Poly(-1, 0, 0, NoSym), type |-> "max", targetX |-> R(1)] }

InitWork ==
    /\ functions = SceneFunctions
    /\ params = SceneParams
    /\ activeAnalyses \in Scenes(WorkTemplates, MaxWorkObjects)
    /\ history = <<AppState(functions, activeAnalyses, params)>>
    /\ historyIndex = 1
    /\ lineBuilder = ""
    /\ clock = Len(activeAnalyses) + 1
    /\ pc = "idle"
    /\ points = << >>
    /\ i = 0
    /\ idx = 1
    /\ startCount = 0
    /\ pass = 1
    /\ last = NoLast
    /\ removed = {}
    /\ before = << >>
    /\ input \in WorkInputs
    /\ output = << >>
    /\ pending = << >>

NextWork ==
    \/ Begin
    \/ Resolve
    \/ EndRound
    \/ NewtonBegin
    \/ NewtonIterate
    \/ NewtonExit
    \/ NewtonReturn

SpecWork == InitWork /\ [][NextWork]_vars

(***************************************************************************)
(* App.tsx: derived curves (onDerivative, onIntegral) and the cascade of   *)
(* calculateFunctionUpdates.  The expression of a curve of this part is    *)
(* the monomial coef * x^pow, written as nerdamer prints it.               *)
(***************************************************************************)
Mono(coef, pow) == [coef |-> coef, pow |-> pow]

\* The empty expression ''.
NoExpression == << >>

\* nerdamer(`diff((e), x)`).toString()
CasDiff(e) ==
    IF e.pow = 0 \/ e.coef = R(0) THEN Mono(R(0), 0)
    ELSE Mono(RMul(e.coef, R(e.pow)), e.pow - 1)

\* nerdamer(`integrate((e), x)`).toString()
CasIntegrate(e) ==
    IF e.coef = R(0) THEN Mono(R(0), 0)
    ELSE Mono(RDiv(e.coef, R(e.pow + 1)), e.pow + 1)

\* types.ts:40-41: a curve with the optional fields derivedFrom and
\* derivationType; 0 and "" stand for undefined.
Derived(f, parentId, how) == [derivedFrom |-> parentId, derivationType |-> how] @@ f

DerivedFrom(f) == IF "derivedFrom" \in DOMAIN f THEN f.derivedFrom ELSE 0

\* Lines 167-168: the new expression of a child.
NewExpr(child, parentExpr) ==
    IF child.derivationType = "derivative" THEN CasDiff(parentExpr)
    ELSE IF child.derivationType = "integral" THEN CasIntegrate(parentExpr)
    ELSE child.expression

\* Line 170: currentFuncs.map(f => f.id === child.id ? { ...f, expression: newExpr } : f)
WithExpression(funcs, id, newExpr) ==
    [k \in 1..Len(funcs) |->
        IF funcs[k].id = id THEN [funcs[k] EXCEPT !.expression = newExpr] ELSE funcs[k]]

\* Line 159: funcs.filter(f => f.derivedFrom === parentId)
ChildrenOf(funcs, parentId) ==
    LET Keep(f) == DerivedFrom(f) = parentId IN Filter(funcs, Keep)

CascadeDepth == 5

RECURSIVE updateCascading(_, _, _, _)

\* Lines 169-172: the child is rewritten and its own children follow when
\* its expression changed.
UpdateChild(currentFuncs, child, depth, newExpr) ==
    IF newExpr # child.expression
        THEN updateCascading(WithExpression(currentFuncs, child.id, newExpr),
                             child.id, newExpr, depth + 1)
        ELSE currentFuncs

\* Lines 162-174: children.forEach over the first n children.
RECURSIVE CascadeChildren(_, _, _, _, _)
CascadeChildren(funcs, children, n, parentExpr, depth) ==
    IF n = 0 THEN funcs
    ELSE UpdateChild(CascadeChildren(funcs, children, n - 1, parentExpr, depth),
                     children[n], depth, NewExpr(children[n], parentExpr))

\* Lines 157-176.
updateCascading(funcs, parentId, parentExpr, depth) ==
    IF depth > CascadeDepth THEN funcs
    ELSE CascadeChildren(funcs, ChildrenOf(funcs, parentId),
                         Len(ChildrenOf(funcs, parentId)), parentExpr, depth)

\* Lines 143-155: the edited curve gets the expression and loses derivedFrom
\* and derivationType.
nextFunctions(currentFunctions, id, val) ==
    [k \in 1..Len(currentFunctions) |->
        IF currentFunctions[k].id # id THEN currentFunctions[k]
        ELSE Derived([currentFunctions[k] EXCEPT !.expression = val], 0, "")]

\* Lines 139-181: calculateFunctionUpdates; an empty expression starts no cascade.
calculateFunctionUpdates(currentFunctions, id, val) ==
    IF val = NoExpression THEN nextFunctions(currentFunctions, id, val)
    ELSE updateCascading(nextFunctions(currentFunctions, id, val), id, val, 0)

\* The values typed into the input of a curve: x^9, 5 and nothing.
EditValues == { Mono(R(1), 9), Mono(R(5), 0), NoExpression }

\* App.tsx:183-189 handleFunctionSubmit(id, valRaw): a monomial in x names no
\* new parameter, so the updater of checkForNewParams returns prev.
MaxCascadeEdits == 2

handleFunctionSubmit ==
    \E k \in 1..Len(functions), val \in EditValues :
        /\ Len(history) <= MaxCascadeEdits
        /\ input' = [id |-> functions[k].id, val |-> val, functions |-> functions]
        /\ updateState(calculateFunctionUpdates(functions, functions[k].id, val),
                       activeAnalyses, params, TRUE)
        /\ UNCHANGED <<lineBuilder, clock, callVars, pass, last, removalVars, output, pending>>

MaxCascadeFunctions == 8

\* [...functions, { id: Date.now(), expression, derivedFrom: id, derivationType }]
WithDerived(funcs, parent, how, id) ==
    Append(funcs,
           Derived(Func(id, IF how = "derivative" THEN "g" ELSE "F",
                        IF how = "derivative" THEN CasDiff(parent.expression)
                        ELSE CasIntegrate(parent.expression)),
                   parent.id, how))

DerivationTypes == {"derivative", "integral"}

\* App.tsx:300 onDerivative(id) and onIntegral(id) on the first or the last
\* curve of the list, when it has an expression.
onDerive ==
    \E k \in {1, Len(functions)}, how \in DerivationTypes :
        /\ Len(functions) < MaxCascadeFunctions
        /\ Len(history) <= MaxCascadeEdits
        /\ functions[k].expression # NoExpression
        /\ updateState(WithDerived(functions, functions[k], how, clock),
                       activeAnalyses, params, TRUE)
        /\ clock' = clock + 1
        /\ UNCHANGED <<lineBuilder, callVars, pass, last, removalVars, solverVars, pending>>

(***************************************************************************)
(* SpecCascade: edits of curves with derived curves below them.            *)
(***************************************************************************)
\* The curves onDerivative and onIntegral build from one curve: shape[k] is
\* the position of the parent of the curve at k + 1, hows[k] its derivation.
RECURSIVE DerivedFamily(_, _, _, _)
DerivedFamily(root, shape, hows, n) ==
    IF n = 0 THEN <<Derived(Func(1, "f", root), 0, "")>>
    ELSE WithDerived(DerivedFamily(root, shape, hows, n - 1),
                     DerivedFamily(root, shape, hows, n - 1)[shape[n]],
                     hows[n], n + 1)

\* A chain, two chains below the first curve, and a chain with side branches.
CascadeShapes ==
    { [k \in 1..(MaxCascadeFunctions - 1) |-> k],
      [k \in 1..(MaxCascadeFunctions - 1) |-> IF k <= 2 THEN 1 ELSE k - 1],
      [k \in 1..(MaxCascadeFunctions - 1) |-> IF k % 3 = 0 THEN k - 1 ELSE k] }

CascadeHows ==
    { [k \in 1..(MaxCascadeFunctions - 1) |-> "derivative"],
      [k \in 1..(MaxCascadeFunctions - 1) |-> "integral"],
      [k \in 1..(MaxCascadeFunctions - 1) |-> IF k % 2 = 0 THEN "integral" ELSE "derivative"] }

CascadeRoots == { Mono(R(1), 7), Mono(R(3), 2) }

\* A derivedFrom graph no operation builds, as the claim of termination
\* takes it: the first curve derived from the last one.
Cyclic(funcs) ==
    [k \in 1..Len(funcs) |->
        IF k = 1 THEN Derived(funcs[1], funcs[Len(funcs)].id, "derivative") ELSE funcs[k]]

CascadeFamilies ==
    { DerivedFamily(root, shape, hows, n) :
          root \in CascadeRoots, shape \in CascadeShapes, hows \in CascadeHows,
          n \in {2, MaxCascadeFunctions - 1} }

CyclicFamilies ==
    { Cyclic(DerivedFamily(root, [k \in 1..(MaxCascadeFunctions - 1) |-> k], hows, n)) :
          root \in CascadeRoots, hows \in CascadeHows, n \in {1, 2, MaxCascadeFunctions - 1} }

InitCascade ==
    /\ functions \in CascadeFamilies \cup CyclicFamilies
    /\ params = << >>
    /\ activeAnalyses = << >>
    /\ history = <<AppState(functions, << >>, << >>)>>
    /\ historyIndex = 1
    /\ lineBuilder = ""
    /\ clock = Len(functions) + 1
    /\ pc = "idle"
    /\ points = << >>
    /\ i = 0
    /\ idx = 1
    /\ startCount = 0
    /\ pass = 1
    /\ last = NoLast
    /\ removed = {}
    /\ before = << >>
    /\ input = << >>
    /\ output = << >>
    /\ pending = << >>

NextCascade ==
    \/ handleFunctionSubmit
    \/ onDerive

SpecCascade == InitCascade /\ [][NextCascade]_vars

(***************************************************************************)
(* App.tsx: the writers of params.  A handler reads the lists of the       *)
(* render it was created in (its closure c) and queues state updates; the  *)
(* updates of one event turn are applied in order before the next render.  *)
(***************************************************************************)
Closure == [functions |-> functions, params |-> params, activeAnalyses |-> activeAnalyses,
            history |-> history, historyIndex |-> historyIndex]

\* setParams(value), setFunctions(value), setHistory(value) with
\* setHistoryIndex(length - 1), and setParams(prev => ...) of checkForNewParams.
SetParams(ps) == [op |-> "setParams", params |-> ps]
SetFunctions(fns) == [op |-> "setFunctions", functions |-> fns]
SetHistory(h) == [op |-> "setHistory", history |-> h]
DetectParams(syms, ignoreList, c) ==
    [op |-> "detect", syms |-> syms, ignoreList |-> ignoreList,
     functions |-> c.functions, labels |-> Labels(c.activeAnalyses) \ {""}]

\* A faulty test of a candidate: the names prev holds are not looked at.
SkippedUnlessExisting(sym, existing, u) ==
    \/ sym \in {"x", "y"}
    \/ \E k \in 1..Len(u.functions) : u.functions[k].name = sym
    \/ sym \in Range(u.ignoreList)
    \/ sym \in u.labels

\* Line 127: the candidates that give no parameter.
Skipped(sym, existing, u) ==
    \/ sym \in {"x", "y"}
    \/ \E k \in 1..Len(u.functions) : u.functions[k].name = sym
    \/ sym \in existing
    \/ sym \in Range(u.ignoreList)
    \/ sym \in u.labels

ParamNamesOf(ps) == {ps[k].name : k \in 1..Len(ps)}

\* Lines 126-133: newParams after the first n candidates; existing.add(sym)
\* makes a name of newParams an existing one.
RECURSIVE NewParams(_, _, _)
PushNew(newParams, sym, prev, u) ==
    IF Skipped(sym, ParamNamesOf(prev) \cup ParamNamesOf(newParams), u) THEN newParams
    ELSE Append(newParams, Param(sym, R(1)))

NewParams(prev, u, n) ==
    IF n = 0 THEN << >> ELSE PushNew(NewParams(prev, u, n - 1), u.syms[n], prev, u)

\* Lines 123-135: the updater, [...prev, ...newParams].
DetectedParams(prev, u) == prev \o NewParams(prev, u, Len(u.syms))

\* One queued update applied to the state st.
ApplyUpdate(st, u) ==
    IF u.op = "setParams" THEN [st EXCEPT !.params = u.params]
    ELSE IF u.op = "detect" THEN [st EXCEPT !.params = DetectedParams(st.params, u)]
    ELSE IF u.op = "setFunctions" THEN [st EXCEPT !.functions = u.functions]
    ELSE [st EXCEPT !.history = u.history, !.historyIndex = Len(u.history)]

RECURSIVE Applied(_, _, _)
Applied(st, updates, n) ==
    IF n = 0 THEN st ELSE ApplyUpdate(Applied(st, updates, n - 1), updates[n])

\* The render after an event turn.
Rendered(st) ==
    /\ functions' = st.functions
    /\ params' = st.params
    /\ history' = st.history
    /\ historyIndex' = st.historyIndex
    /\ UNCHANGED activeAnalyses

\* Lines 57-63 in the closure c.
Committed(c, state) ==
    <<SetHistory(Capped(Append(SubSeq(c.history, 1, c.historyIndex), state)))>>

\* updateState({ params }, commit) in the closure c.
ParamsUpdate(c, ps, commit) ==
    <<SetParams(ps)>>
    \o (IF commit THEN Committed(c, AppState(c.functions, c.activeAnalyses, ps)) ELSE << >>)

HasParam(ps, n) == ParamIndex(ps, n) # 0

\* params.find(p => p.name === n) ? params.map(...) : [...params, { name: n, value: v }]
Upserted(ps, n, v) ==
    IF HasParam(ps, n) THEN WithParam(ps, n, v) ELSE Append(ps, Param(n, v))

\* Lines 222-231: the value of `name = sym`: the value of the parameter sym,
\* 1 when the evaluation throws.
EvaluatedValue(c, sym) ==
    IF HasParam(c.params, sym) THEN c.params[ParamIndex(c.params, sym)].value ELSE R(1)

\* handleGeneralInput, lines 204 and 222-233: the input `name = sym`.
QParameterFromSymbol(c, name, sym) ==
    <<DetectParams(<<name, sym>>, <<name>>, c)>>
    \o ParamsUpdate(c, Upserted(c.params, name, EvaluatedValue(c, sym)), TRUE)

\* handleGeneralInput, lines 204 and 222-233: the input `name = v`.
QParameterFromValue(c, name, v) ==
    <<DetectParams(<<name>>, <<name>>, c)>>
    \o ParamsUpdate(c, Upserted(c.params, name, R(v)), TRUE)

\* handleGeneralInput, lines 204 and 264-270: the input `sym * x + other`,
\* a new curve with the id now.
QFunctionInput(c, sym, other, now) ==
    <<DetectParams(<<sym, "x", other>>, << >>, c),
      SetFunctions(Append(c.functions, Func(now, "g", Poly(0, 1, 0, Name(sym)))))>>
    \o Committed(c, AppState(Append(c.functions, Func(now, "g", Poly(0, 1, 0, Name(sym)))),
                             c.activeAnalyses, c.params))

\* App.tsx:299 onUpdateParam(n, v) of the Sidebar.
QUpdateParam(c, n, v) == ParamsUpdate(c, Upserted(c.params, n, R(v)), FALSE)

\* App.tsx:321 onUpdateParam(n, v) of the AIAssistant.
QUpdateParamAI(c, n, v) == ParamsUpdate(c, WithParam(c.params, n, R(v)), FALSE)

\* App.tsx:299 onUpdateParamSettings(n, s): min, max and step are no part of
\* Param, so the map leaves the list as it is.
QUpdateParamSettings(c, n) == ParamsUpdate(c, WithParam(c.params, n, EvaluatedValue(c, n)), TRUE)

\* App.tsx:299 onRemoveParam(n)
QRemoveParam(c, n) ==
    LET Keep(p) == p.name # n IN ParamsUpdate(c, Filter(c.params, Keep), TRUE)

SymbolNames == {"a", "b"}
TypedValues == {2}
MaxParamCommits == 1
MaxPending == 4

CanCommit(c) == Len(c.history) <= MaxParamCommits

\* An event turn of one handler: its updates and the render.
Turn(updates) ==
    /\ pending = << >>
    /\ Rendered(Applied(Closure, updates, Len(updates)))
    /\ UNCHANGED <<lineBuilder, callVars, pass, last, removalVars, solverVars, pending>>

parameterInput ==
    /\ CanCommit(Closure)
    /\ \/ \E name \in SymbolNames, v \in TypedValues : Turn(QParameterFromValue(Closure, name, v))
       \/ \E name \in SymbolNames : \E sym \in SymbolNames \ {name} :
              Turn(QParameterFromSymbol(Closure, name, sym))
    /\ UNCHANGED clock

functionInput ==
    /\ CanCommit(Closure)
    /\ clock <= MaxClock
    /\ \E sym \in SymbolNames : Turn(QFunctionInput(Closure, sym, "a", clock))
    /\ clock' = clock + 1

sliderUpdate ==
    /\ \E n \in SymbolNames, v \in TypedValues : Turn(QUpdateParam(Closure, n, v))
    /\ UNCHANGED clock

onUpdateParamSettings ==
    /\ CanCommit(Closure)
    /\ \E n \in SymbolNames : Turn(QUpdateParamSettings(Closure, n))
    /\ UNCHANGED clock

onRemoveParam ==
    /\ CanCommit(Closure)
    /\ \E n \in SymbolNames : Turn(QRemoveParam(Closure, n))
    /\ UNCHANGED clock

\* Canvas.tsx:513-521 handleGeminiSubmit: the request leaves with the
\* handlers of this render.
handleGeminiSubmit ==
    /\ pending = << >>
    /\ input = << >>
    /\ input' = Closure
    /\ UNCHANGED <<sceneVars, appVars, callVars, pass, last, removalVars, output, pending>>

\* The commands of a response: add_function, set_param, remove_param.
Commands(c, now) ==
    { QParameterFromValue(c, "b", v) : v \in TypedValues }
    \cup { QParameterFromSymbol(c, "b", "a") }
    \cup { QFunctionInput(c, "b", "a", now) }
    \cup { QUpdateParamAI(c, "a", v) : v \in TypedValues }
    \cup { QRemoveParam(c, n) : n \in SymbolNames }

\* Canvas.tsx:523-532: one command of the response, run in the closure of
\* the request.
aiCommand ==
    /\ input # << >>
    /\ clock <= MaxClock
    /\ Len(pending) < MaxPending
    /\ \E q \in Commands(input, clock) :
           /\ CanCommit(input) \/ \A k \in 1..Len(q) : q[k].op # "setHistory"
           /\ pending' = pending \o q
    /\ UNCHANGED <<sceneVars, appVars, callVars, pass, last, removalVars, solverVars>>

\* The render after the commands of the response; output keeps the closure
\* and the updates of the turn.
render ==
    /\ pending # << >>
    /\ Rendered(Applied(Closure, pending, Len(pending)))
    /\ pending' = << >>
    /\ input' = << >>
    /\ output' = <<[closure |-> input, updates |-> pending]>>
    /\ clock' = clock + 1
    /\ UNCHANGED <<lineBuilder, callVars, pass, last, removalVars>>

(***************************************************************************)
(* SpecParams: the operations on parameters from the first state of the    *)
(* application.                                                            *)
(***************************************************************************)
NextParams ==
    \/ parameterInput
    \/ functionInput
    \/ sliderUpdate
    \/ onUpdateParamSettings
    \/ onRemoveParam
    \/ handleGeminiSubmit
    \/ aiCommand
    \/ render
    \/ pending = << >> /\ handleUndo
    \/ pending = << >> /\ handleRedo

SpecParams == InitApp /\ [][NextParams]_vars

(***************************************************************************)
(* Canvas.tsx: the marching squares of an implicit or inequality curve     *)
(* (drawFuncPath, lines 213-233).  `input` holds the size of the canvas,   *)
(* the operator and what the expression gives at every grid point;         *)
(* `output` holds the polygons of the fill and the segments of the outline *)
(* in the order they enter the path.                                       *)
(***************************************************************************)
GridRes == 8

\* Math.ceil(width / res) + 1
GridCount(size) == ((size + GridRes - 1) \div GridRes) + 1

\* Line 216: gridValues[k] = isNaN(v) ? NaN : v, NaN when the evaluation throws.
GridValue(v) == IF v = Throw THEN NaN ELSE IF isNaN(v) THEN NaN ELSE v

gridValues(outcomes) == [k \in 1..Len(outcomes) |-> GridValue(outcomes[k])]

\* Line 217: isInside
isInside(v, operator) ==
    /\ ~isNaN(v)
    /\ IF operator \in {"<", "<="} THEN RLt(v, R(0)) ELSE RLt(R(0), v)

\* The check of the outline (line 229): isInside for an inequality, v > 0 otherwise.
OutlineCheck(v, type, operator) ==
    IF type = "inequality" THEN isInside(v, operator) ELSE RLt(R(0), v)

Bit(b, weight) == IF b THEN weight ELSE 0

\* lerp (lines 221, 230)
lerp(a, b) ==
    IF ~isNaN(RSub(b, a)) /\ AbsBelow(RSub(b, a), 1000000000) THEN <<1, 2>>
    ELSE RDiv(RNeg(a), RSub(b, a))

Pt(x, y) == [x |-> x, y |-> y]

Along(from, t) == RAdd(R(from), RMul(t, R(GridRes)))

\* Lines 222 and 230: the corners and the edge points of the cell at (x0, y0).
CellPoints(x0, y0, v0, v1, v2, v3) ==
    [TL |-> Pt(R(x0), R(y0)), TR |-> Pt(R(x0 + GridRes), R(y0)),
     BR |-> Pt(R(x0 + GridRes), R(y0 + GridRes)), BL |-> Pt(R(x0), R(y0 + GridRes)),
     pT |-> Pt(Along(x0, lerp(v0, v1)), R(y0)),
     pR |-> Pt(R(x0 + GridRes), Along(y0, lerp(v1, v2))),
     pB |-> Pt(Along(x0, lerp(v3, v2)), R(y0 + GridRes)),
     pL |-> Pt(R(x0), Along(y0, lerp(v0, v3)))]

\* Line 223: the polygons of the cases 1..15.
PolygonCases(c) ==
    << << <<c.TL, c.pT, c.pL>> >>,
       << <<c.TR, c.pR, c.pT>> >>,
       << <<c.TL, c.TR, c.pR, c.pL>> >>,
       << <<c.pR, c.BR, c.pB>> >>,
       << <<c.TL, c.pT, c.pL>>, <<c.pR, c.BR, c.pB>> >>,
       << <<c.TR, c.BR, c.pB, c.pT>> >>,
       << <<c.TL, c.TR, c.BR, c.pB, c.pL>> >>,
       << <<c.pL, c.pB, c.BL>> >>,
       << <<c.TL, c.pT, c.pB, c.BL>> >>,
       << <<c.TR, c.pR, c.pT>>, <<c.pL, c.pB, c.BL>> >>,
       << <<c.TL, c.TR, c.pR, c.pB, c.BL>> >>,
       << <<c.pL, c.pR, c.BR, c.BL>> >>,
       << <<c.TL, c.pT, c.pR, c.BR, c.BL>> >>,
       << <<c.pT, c.TR, c.BR, c.BL, c.pL>> >>,
       << <<c.TL, c.TR, c.BR, c.BL>> >> >>

\* Line 231: the segments of the cases 1..14.
SegmentCases(c) ==
    << << <<c.pL, c.pT>> >>,
       << <<c.pT, c.pR>> >>,
       << <<c.pL, c.pR>> >>,
       << <<c.pR, c.pB>> >>,
       << <<c.pL, c.pT>>, <<c.pR, c.pB>> >>,
       << <<c.pT, c.pB>> >>,
       << <<c.pL, c.pB>> >>,
       << <<c.pL, c.pB>> >>,
       << <<c.pB, c.pT>> >>,
       << <<c.pB, c.pR>>, <<c.pT, c.pL>> >>,
       << <<c.pB, c.pR>> >>,
       << <<c.pR, c.pL>> >>,
       << <<c.pR, c.pT>> >>,
       << <<c.pT, c.pL>> >> >>

\* A faulty test of a cell: the first corner only.
FirstCornerNaN(v0, v1, v2, v3) == isNaN(v0)

\* Lines 220 and 228: isNaN(v0) || isNaN(v1) || isNaN(v2) || isNaN(v3)
AnyCornerNaN(v0, v1, v2, v3) == isNaN(v0) \/ isNaN(v1) \/ isNaN(v2) \/ isNaN(v3)

\* Line 221: caseIdx
FillCase(v0, v1, v2, v3, operator) ==
    Bit(isInside(v0, operator), 1) + Bit(isInside(v1, operator), 2)
    + Bit(isInside(v2, operator), 4) + Bit(isInside(v3, operator), 8)

\* Line 229: caseIdx
OutlineCase(v0, v1, v2, v3, type, operator) ==
    Bit(OutlineCheck(v0, type, operator), 1) + Bit(OutlineCheck(v1, type, operator), 2)
    + Bit(OutlineCheck(v2, type, operator), 4) + Bit(OutlineCheck(v3, type, operator), 8)

PolygonsOfCase(caseIdx, c) == IF caseIdx = 0 THEN << >> ELSE PolygonCases(c)[caseIdx]

SegmentsOfCase(caseIdx, c) ==
    IF caseIdx = 0 \/ caseIdx = 15 THEN << >> ELSE SegmentCases(c)[caseIdx]

\* Lines 220-223: the body of the fill loop for the cell at column x, row y.
FillCell(x, y, v0, v1, v2, v3, operator) ==
    IF AnyCornerNaN(v0, v1, v2, v3) THEN << >>
    ELSE PolygonsOfCase(FillCase(v0, v1, v2, v3, operator),
                        CellPoints(x * GridRes, y * GridRes, v0, v1, v2, v3))

\* Lines 228-231: the body of the outline loop for the cell at column x, row y.
OutlineCell(x, y, v0, v1, v2, v3, type, operator) ==
    IF AnyCornerNaN(v0, v1, v2, v3) THEN << >>
    ELSE SegmentsOfCase(OutlineCase(v0, v1, v2, v3, type, operator),
                        CellPoints(x * GridRes, y * GridRes, v0, v1, v2, v3))

\* k = y * cols + x, and v0 = g[k], v1 = g[k + 1], v2 = g[k + cols + 1],
\* v3 = g[k + cols]; g is 1-based here.
FillAt(g, cols, x, y, operator) ==
    FillCell(x, y, g[y * cols + x + 1], g[y * cols + x + 2],
             g[y * cols + x + cols + 2], g[y * cols + x + cols + 1], operator)

OutlineAt(g, cols, x, y, type, operator) ==
    OutlineCell(x, y, g[y * cols + x + 1], g[y * cols + x + 2],
                g[y * cols + x + cols + 2], g[y * cols + x + cols + 1], type, operator)

\* for (y < rows - 1) for (x < cols - 1): the first n cells, row by row.
RECURSIVE FillLoop(_, _, _, _)
FillLoop(g, cols, n, operator) ==
    IF n = 0 THEN << >>
    ELSE FillLoop(g, cols, n - 1, operator)
         \o FillAt(g, cols, (n - 1) % (cols - 1), (n - 1) \div (cols - 1), operator)

RECURSIVE OutlineLoop(_, _, _, _, _)
OutlineLoop(g, cols, n, type, operator) ==
    IF n = 0 THEN << >>
    ELSE OutlineLoop(g, cols, n - 1, type, operator)
         \o OutlineAt(g, cols, (n - 1) % (cols - 1), (n - 1) \div (cols - 1), type, operator)

CellCount(cols, rows) == (cols - 1) * (rows - 1)

\* Lines 215-216 and 218-224: the grid and, for an inequality, the fill.
fillPass ==
    /\ output = << >>
    /\ output' = <<[at |-> "filled",
                    fill |-> IF input.type = "inequality"
                                 THEN FillLoop(gridValues(input.outcomes),
                                               GridCount(input.width),
                                               CellCount(GridCount(input.width),
                                                         GridCount(input.height)),
                                               input.operator)
                                 ELSE << >>,
                    outline |-> << >>]>>
    /\ UNCHANGED <<sceneVars, appVars, callVars, pass, last, removalVars, input, pending>>

\* Lines 226-232: the outline.
outlinePass ==
    /\ output # << >>
    /\ output[1].at = "filled"
    /\ output' = <<[output[1] EXCEPT
                       !.at = "drawn",
                       !.outline = OutlineLoop(gridValues(input.outcomes),
                                               GridCount(input.width),
                                               CellCount(GridCount(input.width),
                                                         GridCount(input.height)),
                                               input.type, input.operator)]>>
    /\ UNCHANGED <<sceneVars, appVars, callVars, pass, last, removalVars, input, pending>>

(***************************************************************************)
(* SpecMarch: one drawing of an implicit or inequality curve.              *)
(***************************************************************************)
\* What the expression gives at a grid point: an exception (at the first
\* grid point only), NaN, -1 or 3.
Outcomes == {Throw, NaN, R(-1), R(3)}

\* Canvases of one or two cells in each direction.
CanvasSizes == {GridRes, 2 * GridRes}

\* The curve types with their operators.
CurveKinds ==
    {[type |-> "implicit", operator |-> ""], [type |-> "inequality", operator |-> "<"],
     [type |-> "inequality", operator |-> ">="]}

InitMarch ==
    /\ InitSolver
    /\ \E kind \in CurveKinds, width \in CanvasSizes, height \in CanvasSizes :
           \E outcomes \in [1..(GridCount(width) * GridCount(height)) -> Outcomes \ {Throw}],
              first \in Outcomes :
               input = [type |-> kind.type, operator |-> kind.operator,
                        width |-> width, height |-> height,
                        outcomes |-> [outcomes EXCEPT ![1] = first]]

NextMarch ==
    \/ fillPass
    \/ outlinePass

SpecMarch == InitMarch /\ [][NextMarch]_vars

(***************************************************************************)
(* SpecLatest: the resolver computed again after changes of the curves,    *)
(* the parameters, the constructions and the view, two changes in a row.   *)
(***************************************************************************)
\* The bounds typed into the range editor of a curve: none, and [-3, 0].
RangeChoices ==
    { [rangeMin |-> << >>, rangeMax |-> << >>],
      [rangeMin |-> <<Const(-3)>>, rangeMax |-> <<Const(0)>>] }

\* functions.map(f => f.id !== id ? f : { ...f, rangeMin: min, rangeMax: max })
WithRange(fns, id, r) ==
    [k \in 1..Len(fns) |->
        IF fns[k].id # id THEN fns[k]
        ELSE [fns[k] EXCEPT !.rangeMin = r.rangeMin, !.rangeMax = r.rangeMax]]

\* App.tsx:297 onUpdateFunctionRange(id, min, max): no commit.
onUpdateFunctionRange ==
    \E k \in 1..Len(functions), r \in RangeChoices :
        /\ functions[k].rangeMin # r.rangeMin
        /\ Recompute
        /\ updateState(WithRange(functions, functions[k].id, r), activeAnalyses, params, FALSE)

MaxLatestObjects == 2

\* The first call is the one of the first render: pass counts the changes
\* after it from 0, so that a second change follows the first.
InitLatest ==
    /\ functions = SceneFunctions
    /\ params = SceneParams
    /\ activeAnalyses \in Scenes(AnalysisTemplates, MaxLatestObjects)
    /\ history = <<AppState(functions, activeAnalyses, params)>>
    /\ historyIndex = 1
    /\ lineBuilder = ""
    /\ clock = Len(activeAnalyses) + 1
    /\ pc = "idle"
    /\ points = << >>
    /\ i = 0
    /\ idx = 1
    /\ startCount = 0
    /\ pass = 0
    /\ last = NoLast
    /\ removed = {}
    /\ before = << >>
    /\ input = << >>
    /\ output = << >>
    /\ pending = << >>

NextLatest ==
    \/ Begin
    \/ Resolve
    \/ EndRound
    \/ setView
    \/ onUpdateParam
    \/ onUpdateAnalysisCoords
    \/ onUpdateFunctionRange
    \/ syncPoints

SpecLatest == InitLatest /\ [][NextLatest]_vars

(***************************************************************************)
(* SpecFrames: createMathScope and calculateObjectSlope one statement at a *)
(* time, with the Set objects they are given and make kept in a heap.      *)
(* output.heap[a] is the content of the Set at address a, output.stack the *)
(* active calls (the last is the running one); a frame keeps the address   *)
(* of its visitedIds and, in `received`, what that Set held at the call.   *)
(***************************************************************************)
ScopeFrame(a, content) == [fn |-> "createMathScope", visitedIds |-> a, received |-> content, at |-> 1]

SlopeFrame(obj, a, content) ==
    [fn |-> "calculateObjectSlope", obj |-> obj, visitedIds |-> a, received |-> content,
     at |-> "guard", newVisited |-> 0]

Top(stack) == stack[Len(stack)]
Pop(stack) == SubSeq(stack, 1, Len(stack) - 1)
WithTop(stack, frame) == [stack EXCEPT ![Len(stack)] = frame]

\* The caller goes on when the call returns: the forEach of createMathScope
\* with its next object, calculateObjectSlope with its own return.
Resumed(frame) ==
    IF frame.fn = "createMathScope" THEN [frame EXCEPT !.at = frame.at + 1]
    ELSE [frame EXCEPT !.at = "return"]

Returning(stack) ==
    IF Len(stack) = 1 THEN << >>
    ELSE WithTop(Pop(stack), Resumed(stack[Len(stack) - 1]))

Running(fn) ==
    /\ output # << >>
    /\ output[1].stack # << >>
    /\ Top(output[1].stack).fn = fn

FrameStep(heap, stack, thrown) ==
    /\ output' = <<[heap |-> heap, stack |-> stack, thrown |-> thrown]>>
    /\ UNCHANGED <<sceneVars, appVars, callVars, pass, last, removalVars, input, pending>>

\* A faulty line 418: newVisited is the Set of the caller, not a copy.
SameVisited(heap, a) == [heap |-> heap, newVisited |-> a]

\* Line 418: const newVisited = new Set(visitedIds)
NewVisited(heap, a) == [heap |-> Append(heap, heap[a]), newVisited |-> Len(heap) + 1]

\* Lines 437-440: one callback of activeAnalyses.forEach.
scopeForEach ==
    /\ Running("createMathScope")
    /\ LET o == output[1]
           fr == Top(o.stack)
       IN  /\ fr.at <= Len(activeAnalyses)
           /\ IF activeAnalyses[fr.at].label # ""
                 /\ activeAnalyses[fr.at].id \notin o.heap[fr.visitedIds]
                 /\ activeAnalyses[fr.at].type \in SlopeTypes
                  THEN FrameStep(o.heap,
                                 Append(o.stack, SlopeFrame(fr.at, fr.visitedIds,
                                                            o.heap[fr.visitedIds])),
                                 FALSE)
                  ELSE FrameStep(o.heap, WithTop(o.stack, Resumed(fr)), FALSE)

\* Line 450: return scope
scopeReturn ==
    /\ Running("createMathScope")
    /\ Top(output[1].stack).at > Len(activeAnalyses)
    /\ FrameStep(output[1].heap, Returning(output[1].stack), FALSE)

\* The call of line 400 with the arguments of a call that is still active
\* never ends: RangeError, which no frame catches.
SameCall(stack, obj, a) ==
    \E k \in 1..Len(stack) :
        /\ stack[k].fn = "calculateObjectSlope"
        /\ stack[k].obj = obj
        /\ stack[k].visitedIds = a

\* Lines 397-417: the guard and the choice of the branch.
slopeBranch ==
    /\ Running("calculateObjectSlope")
    /\ LET o == output[1]
           fr == Top(o.stack)
           obj == activeAnalyses[fr.obj]
           t == IF obj.type = "slope_analysis" /\ obj.targetId # ""
                    THEN FindAnalysis(activeAnalyses, obj.targetId) ELSE 0
       IN  /\ fr.at = "guard"
           /\ IF obj.id \in o.heap[fr.visitedIds]
                  THEN FrameStep(o.heap, WithTop(o.stack, Resumed(fr)), FALSE)
              ELSE IF t # 0
                  THEN IF SameCall(o.stack, t, fr.visitedIds)
                           THEN FrameStep(o.heap, << >>, TRUE)
                           ELSE FrameStep(o.heap,
                                          Append(WithTop(o.stack, [fr EXCEPT !.at = "called"]),
                                                 SlopeFrame(t, fr.visitedIds,
                                                            o.heap[fr.visitedIds])),
                                          FALSE)
              ELSE IF obj.type = "tangent_analysis" /\ obj.funcId # 0
                      /\ FindFunction(functions, obj.funcId) # 0
                      /\ TangentX(obj, points) # Undefined
                  THEN FrameStep(NewVisited(o.heap, fr.visitedIds).heap,
                                 WithTop(o.stack,
                                         [fr EXCEPT !.at = "copied",
                                                    !.newVisited =
                                                        NewVisited(o.heap, fr.visitedIds).newVisited]),
                                 FALSE)
              ELSE FrameStep(o.heap, WithTop(o.stack, Resumed(fr)), FALSE)

\* Line 419: newVisited.add(String(obj.id))
slopeAdd ==
    /\ Running("calculateObjectSlope")
    /\ LET o == output[1]
           fr == Top(o.stack)
       IN  /\ fr.at = "copied"
           /\ FrameStep([o.heap EXCEPT ![fr.newVisited] = @ \cup {activeAnalyses[fr.obj].id}],
                        WithTop(o.stack, [fr EXCEPT !.at = "added"]), FALSE)

\* Line 420: createMathScope(params, calculatedPoints, analyses, functions, newVisited)
slopeScope ==
    /\ Running("calculateObjectSlope")
    /\ LET o == output[1]
           fr == Top(o.stack)
       IN  /\ fr.at = "added"
           /\ FrameStep(o.heap,
                        Append(WithTop(o.stack, [fr EXCEPT !.at = "called"]),
                               ScopeFrame(fr.newVisited, o.heap[fr.newVisited])),
                        FALSE)

\* The returns of lines 397, 400, 406-407, 424 and 429.
slopeReturn ==
    /\ Running("calculateObjectSlope")
    /\ Top(output[1].stack).at = "return"
    /\ FrameStep(output[1].heap, Returning(output[1].stack), FALSE)

MaxFrameObjects == 3

FrameTemplates(k, n) ==
    { FreePointAt(k),
      LineAt(k, <<IdAt(1), IdAt(2)>>),
      TangentAt1(k, 1, R(1)),
      [TangentAt1(k, 2, R(1)) EXCEPT !.vertices = <<IdAt(Next1(k, n))>>],
      TangentAt1(k, DanglingFunc, R(1)),
      [TangentAt1(k, 1, R(1)) EXCEPT !.label = ""],
      SlopeAt(k, IdAt(Next1(k, n))),
      SlopeAt(k, IdAt(k)) }

\* The visitedIds of the first call: the default new Set(), or a Set that
\* holds the id of the first object.
FirstVisited == { {}, {IdAt(1)} }

\* The first call: createMathScope, or calculateObjectSlope on an object of
\* the list.
FirstCalls(analyses) ==
    { [fn |-> "createMathScope", obj |-> 0] }
        \cup { [fn |-> "calculateObjectSlope", obj |-> k] : k \in {1, Len(analyses)} }

InitFrames ==
    /\ functions = SlopeFunctions
    /\ params = SceneParams
    /\ activeAnalyses \in Scenes(FrameTemplates, MaxFrameObjects)
    /\ history = <<AppState(functions, activeAnalyses, params)>>
    /\ historyIndex = 1
    /\ lineBuilder = ""
    /\ clock = Len(activeAnalyses) + 1
    /\ pc = "done"
    /\ points = FreePoints(activeAnalyses, Len(activeAnalyses))
    /\ i = 0
    /\ idx = 1
    /\ startCount = 0
    /\ pass = 1
    /\ last = NoLast
    /\ removed = {}
    /\ before = << >>
    /\ \E call \in FirstCalls(activeAnalyses), v \in FirstVisited :
           input = [call |-> call, visitedIds |-> v, functions |-> functions,
                    params |-> params, activeAnalyses |-> activeAnalyses,
                    calculatedPoints |-> points]
    /\ output = << >>
    /\ pending = << >>

\* The first call is made with its visitedIds at address 1.
callFirst ==
    /\ output = << >>
    /\ FrameStep(<<input.visitedIds>>,
                 <<IF input.call.fn = "createMathScope"
                       THEN ScopeFrame(1, input.visitedIds)
                       ELSE SlopeFrame(input.call.obj, 1, input.visitedIds)>>,
                 FALSE)

NextFrames ==
    \/ callFirst
    \/ scopeForEach
    \/ scopeReturn
    \/ slopeBranch
    \/ slopeAdd
    \/ slopeScope
    \/ slopeReturn

SpecFrames == InitFrames /\ [][NextFrames]_vars

(***************************************************************************)
(* Wide numbers.  The iterates of solveClosest on x^2 - 4 need more digits *)
(* than a machine integer holds: a natural number is the list of its       *)
(* digits in base 10000, the lowest first (0 is the empty list), an        *)
(* integer is <<sign, digits>> with sign -1, 0 or 1, and a number is the   *)
(* fraction [n |-> integer, d |-> natural > 0], not reduced.  Arithmetic   *)
(* is exact, as for the numbers <<n, d>> above.                            *)
(***************************************************************************)
WBase == 10000

Limb(a, k) == IF k <= Len(a) THEN a[k] ELSE 0

\* Without the zeros at the high end.
WTrim(a) ==
    IF \A k \in 1..Len(a) : a[k] = 0 THEN << >>
    ELSE SubSeq(a, 1, CHOOSE k \in 1..Len(a) :
                          a[k] # 0 /\ \A j \in (k + 1)..Len(a) : a[j] = 0)

\* The digits of a natural number of machine size.
WNat(n) == WTrim(<<n % WBase, (n \div WBase) % WBase, n \div (WBase * WBase)>>)

\* The carry into digit k of a + b: a digit below k overflows and every
\* digit between passes the carry on.
WCarry(a, b, k) ==
    IF \E j \in 1..(k - 1) :
           /\ Limb(a, j) + Limb(b, j) >= WBase
           /\ \A m \in (j + 1)..(k - 1) : Limb(a, m) + Limb(b, m) = WBase - 1
        THEN 1 ELSE 0

WLonger(a, b) == IF Len(a) > Len(b) THEN Len(a) ELSE Len(b)

WAdd(a, b) ==
    WTrim([k \in 1..(WLonger(a, b) + 1) |->
              (Limb(a, k) + Limb(b, k) + WCarry(a, b, k)) % WBase])

\* The borrow from digit k of a - b.
WBorrow(a, b, k) ==
    IF \E j \in 1..(k - 1) :
           /\ a[j] < Limb(b, j)
           /\ \A m \in (j + 1)..(k - 1) : a[m] <= Limb(b, m)
        THEN 1 ELSE 0

\* a - b for a >= b.
WSub(a, b) ==
    WTrim([k \in 1..Len(a) |-> (a[k] - Limb(b, k) - WBorrow(a, b, k) + WBase) % WBase])

\* a * m for one digit m: the low halves of the products of the digits
\* and, one place up, their high halves.
WTimes(a, m) ==
    WAdd([k \in 1..Len(a) |-> (a[k] * m) % WBase],
         <<0>> \o [k \in 1..Len(a) |-> (a[k] * m) \div WBase])

WShift(a) == IF a = << >> THEN a ELSE <<0>> \o a

RECURSIVE WMulFrom(_, _, _)
WMulFrom(a, b, k) ==
    IF k > Len(b) THEN << >>
    ELSE WAdd(WTimes(a, b[k]), WShift(WMulFrom(a, b, k + 1)))

\* The shorter number gives the digits to multiply by.
WMul(a, b) == IF Len(a) < Len(b) THEN WMulFrom(b, a, 1) ELSE WMulFrom(a, b, 1)

\* a < b: the longer number is the larger, else the highest digit that differs decides.
WLt(a, b) ==
    IF Len(a) # Len(b) THEN Len(a) < Len(b)
    ELSE \E k \in 1..Len(a) : a[k] < b[k] /\ \A j \in (k + 1)..Len(a) : a[j] = b[j]

\* Integers.
ZInt(n) == <<IF n < 0 THEN -1 ELSE IF n = 0 THEN 0 ELSE 1, WNat(Abs(n))>>
ZOf(sign, a) == IF a = << >> THEN <<0, << >>>> ELSE <<sign, a>>
ZNeg(a) == <<-a[1], a[2]>>
ZMul(a, b) == ZOf(a[1] * b[1], WMul(a[2], b[2]))

ZAdd(a, b) ==
    IF a[1] = 0 THEN b
    ELSE IF b[1] = 0 THEN a
    ELSE IF a[1] = b[1] THEN <<a[1], WAdd(a[2], b[2])>>
    ELSE IF WLt(a[2], b[2]) THEN ZOf(b[1], WSub(b[2], a[2]))
    ELSE ZOf(a[1], WSub(a[2], b[2]))

ZSub(a, b) == ZAdd(a, ZNeg(b))

\* Numbers.
Wide(n, d) == [n |-> ZInt(n), d |-> WNat(d)]

\* The fraction n / d of two integers, d not 0, with the sign in n.
WideOf(n, d) == [n |-> ZOf(n[1] * d[1], n[2]), d |-> d[2]]

\* |v| < 1 / t and |v| > t for a natural number t of machine size.
WideAbsBelow(v, t) == WLt(WMul(v.n[2], WNat(t)), v.d)
WideAbsAbove(v, t) == WLt(WMul(v.d, WNat(t)), v.n[2])

WideSub(a, b) ==
    [n |-> ZSub(ZMul(a.n, <<1, b.d>>), ZMul(b.n, <<1, a.d>>)), d |-> WMul(a.d, b.d)]

WideEq(a, b) == ZMul(a.n, <<1, b.d>>) = ZMul(b.n, <<1, a.d>>)

(***************************************************************************)
(* SpecConverge: solveClosest for the zeros of a polynomial with integer   *)
(* coefficients, one iteration at a time, on wide numbers.  With           *)
(* currentX = p / q:                                                       *)
(*     y  = g(currentX) = (c2 p^2 + c1 p q + c0 q^2) / q^2                 *)
(*     dg = (g(currentX + h) - g(currentX - h)) / (2h) = (2 c2 p + c1 q) / q *)
(* (the centered difference of a polynomial of degree <= 2 is its          *)
(* derivative), and with y = Y / q^2 and dg = D / q                        *)
(*     nextX = currentX - y / dg = (p D - Y) / (q D).                      *)
(***************************************************************************)
\* The numerator Y of g(p / q) over q^2.
WideY(e, p, q) ==
    ZAdd(ZAdd(ZMul(ZInt(e.c2), ZMul(p, p)), ZMul(ZInt(e.c1), ZMul(p, q))),
         ZMul(ZInt(e.c0), ZMul(q, q)))

\* The numerator D of dg over q.
WideD(e, p, q) == ZAdd(ZMul(ZInt(2 * e.c2), p), ZMul(ZInt(e.c1), q))

\* Line 168: y = g(currentX)
WideG(e, xv) == [n |-> WideY(e, xv.n, <<1, xv.d>>), d |-> WMul(xv.d, xv.d)]

\* Lines 171-172: dg
WideDg(e, xv) == [n |-> WideD(e, xv.n, <<1, xv.d>>), d |-> xv.d]

\* A faulty step: currentX - y, the slope is not divided by.
WideStepUndivided(xv, y, dg) == WideSub(xv, y)

\* Line 174: nextX = currentX - y / dg, for dg other than 0.
WideNext(xv, y, dg) ==
    WideOf(ZSub(ZMul(xv.n, dg.n), y.n), ZMul(<<1, xv.d>>, dg.n))

WideLocals(currentX, found, n, at, result) ==
    <<[currentX |-> currentX, found |-> found, i |-> n, at |-> at, result |-> result]>>

\* Lines 175-177 with nextX.
WideMove(st, nextX) ==
    IF WideAbsBelow(WideSub(nextX, st.currentX), 1000000000)
        THEN WideLocals(nextX, TRUE, st.i, "after", Undefined)
    ELSE IF WideAbsAbove(nextX, 1000000)
        THEN WideLocals(st.currentX, FALSE, st.i, "after", Undefined)
    ELSE WideLocals(nextX, FALSE, st.i + 1, "loop", Undefined)

\* Lines 168-174: the body of the loop with y and dg (y is never NaN here).
WideBody(st, y, dg) ==
    IF WideAbsBelow(y, 10000000) THEN WideLocals(st.currentX, TRUE, st.i, "after", Undefined)
    ELSE IF WideAbsBelow(dg, 1000000000)
        THEN WideLocals(st.currentX, FALSE, st.i, "after", Undefined)
    ELSE WideMove(st, WideNext(st.currentX, y, dg))

\* Lines 159-166.
convergeBegin ==
    /\ output = << >>
    /\ output' = WideLocals(input.targetX, FALSE, 0, "loop", Undefined)
    /\ UNCHANGED <<sceneVars, appVars, callVars, pass, last, removalVars, input, pending>>

\* One pass through the body of `for (let i = 0; i < 30; i++)`.
convergeIterate ==
    /\ output # << >>
    /\ output[1].at = "loop"
    /\ output[1].i < NewtonIterations
    /\ output' = WideBody(output[1], WideG(input.expression, output[1].currentX),
                          WideDg(input.expression, output[1].currentX))
    /\ UNCHANGED <<sceneVars, appVars, callVars, pass, last, removalVars, input, pending>>

\* Lines 179-194 for zeros: found || Math.abs(g(currentX)) < 1e-3.
WideResult(st, gEnd) ==
    IF st.found \/ WideAbsBelow(gEnd, 1000)
        THEN <<[x |-> st.currentX, y |-> gEnd]>>
        ELSE Undefined

\* The loop was left, by a break or by its test: the value returned.
convergeReturn ==
    /\ output # << >>
    /\ \/ output[1].at = "after"
       \/ output[1].at = "loop" /\ output[1].i >= NewtonIterations
    /\ output' = <<[output[1] EXCEPT
                       !.at = "returned",
                       !.result = WideResult(output[1],
                                             WideG(input.expression, output[1].currentX))]>>
    /\ UNCHANGED <<sceneVars, appVars, callVars, pass, last, removalVars, input, pending>>

\* The starts: 3 and -3 and the other whole numbers up to 5 away from 0,
\* and halves.
WholeStarts == { Wide(n, 1) : n \in {-5, -4, -3, -1, 1, 3, 4, 5} }
HalfStarts(ns) == { Wide(n, 2) : n \in ns }

\* x^2 - 4, x^2 - 9, x^2 - 6x, 2x + 4, each with its zeros and the starts
\* from which the iterates stay below forty digits.
ConvergeCurves ==
    { [expression |-> Poly(1, 0, -4, NoSym), zeros |-> {2, -2},
       starts |-> WholeStarts \cup HalfStarts({-5, 5, 7})],
      [expression |-> Poly(1, 0, -9, NoSym), zeros |-> {3, -3},
       starts |-> WholeStarts \cup HalfStarts({-5, 5, 7})],
      [expression |-> Poly(1, -6, 0, NoSym), zeros |-> {0, 6},
       starts |-> WholeStarts \cup HalfStarts({-1, 1})],
      [expression |-> Poly(0, 2, 4, NoSym), zeros |-> {-2},
       starts |-> WholeStarts \cup HalfStarts({-5, -1, 1, 5, 7})] }

InitConverge ==
    /\ InitSolver
    /\ \E c \in ConvergeCurves :
           \E targetX \in c.starts :
               input = [expression |-> c.expression, type |-> "zeros", zeros |-> c.zeros,
                        targetX |-> targetX]

NextConverge ==
    \/ convergeBegin
    \/ convergeIterate
    \/ convergeReturn

SpecConverge == InitConverge /\ [][NextConverge]_vars

(***************************************************************************)
(* formatNumberToLatex and formatNumberDecimal.  The argument is the       *)
(* number n / d or, with pi set, (n / d) * Math.PI, n / d in lowest terms; *)
(* the string returned is a record of its form and its numbers:            *)
(*   Whole(k)          "k"                 PiForm(k, denom)  "\frac{k\pi}{denom}" *)
(*   Fraction(n, d)    "\frac{n}{d}"       Decimal(v)        the decimal v  *)
(***************************************************************************)
ZLt(a, b) == ZSub(a, b)[1] = -1

\* v < w
WideBelow(v, w) == ZLt(ZMul(v.n, <<1, w.d>>), ZMul(w.n, <<1, v.d>>))
WideMul(a, b) == [n |-> ZMul(a.n, b.n), d |-> WMul(a.d, b.d)]
WideAbs(v) == [n |-> ZOf(1, v.n[2]), d |-> v.d]

\* Math.PI = 3.141592653589793 = (31415926 * 10^8 + 53589793) / (10^8 * 10^7)
MathPI ==
    [n |-> <<1, WAdd(WMul(WNat(31415926), WNat(100000000)), WNat(53589793))>>,
     d |-> WMul(WNat(100000000), WNat(10000000))]
OverPI == [n |-> <<1, MathPI.d>>, d |-> MathPI.n[2]]

\* The number an argument stands for: n / d in units of 1, of Math.PI or
\* of a millionth.
NumberOf(num) ==
    IF num.unit = "pi" THEN WideMul(Wide(num.n, num.d), MathPI)
    ELSE IF num.unit = "millionth" THEN WideMul(Wide(num.n, num.d), Wide(1, 1000000))
    ELSE Wide(num.n, num.d)

\* |v| < r
WideAbsBelowWhole(v, r) == WideBelow(WideAbs(v), Wide(r, 1))

\* Math.round(v): the whole number k with k - 1/2 <= v < k + 1/2, looked
\* for between lo and hi.
RECURSIVE RoundIn(_, _, _)
RoundSplit(v, lo, hi, mid) ==
    IF WideBelow(v, Wide(2 * mid - 1, 2)) THEN RoundIn(v, lo, mid - 1)
    ELSE RoundIn(v, mid, hi)

RoundIn(v, lo, hi) ==
    IF lo = hi THEN lo ELSE RoundSplit(v, lo, hi, (lo + hi + 1) \div 2)

RoundRange == 16777216

\* The search starts in the narrowest of the ranges that holds v.
RoundWithin(v, ranges) ==
    RoundIn(v, -ranges[CHOOSE j \in 1..Len(ranges) :
                          /\ j = Len(ranges) \/ WideAbsBelowWhole(v, ranges[j])
                          /\ \A m \in 1..(j - 1) : ~WideAbsBelowWhole(v, ranges[m])],
               ranges[CHOOSE j \in 1..Len(ranges) :
                          /\ j = Len(ranges) \/ WideAbsBelowWhole(v, ranges[j])
                          /\ \A m \in 1..(j - 1) : ~WideAbsBelowWhole(v, ranges[m])])

MathRound(v) == RoundWithin(v, <<16, 1024, RoundRange>>)

Whole(k) == [form |-> "whole", n |-> k, d |-> 1]
PiForm(k, denom) == [form |-> "pi", n |-> k, d |-> denom]
Fraction(n, d) == [form |-> "fraction", n |-> n, d |-> d]
\* A decimal without decimals is written as the whole number.
Decimal(v) == IF v[2] = 1 THEN Whole(v[1]) ELSE [form |-> "decimal", n |-> v[1], d |-> v[2]]

\* epsilon = 0.001, kept as 1 / epsilon
epsilon == 1000

\* Math.abs(v - k) < epsilon
NearWhole(v, k) == WideAbsBelow(WideSub(v, Wide(k, 1)), epsilon)

denoms == <<1, 2, 3, 4, 5, 6, 8, 10, 12, 24>>

\* Line 134: ratio = num * denom / Math.PI
Ratio(v, denom) == WideMul(WideMul(v, Wide(denom, 1)), OverPI)

TenTo(p) == IF p = 0 THEN 1 ELSE IF p = 1 THEN 10 ELSE IF p = 2 THEN 100
            ELSE IF p = 3 THEN 1000 ELSE 10000

\* parseFloat(num.toFixed(precision)).toString(): num rounded to
\* `precision` decimals, halves away from zero, written without zeros at
\* the end ("-0.0000" reads as 0).
FixedOf(sign, scaled, precision) == Norm(sign * scaled, TenTo(precision))

toFixed(v, precision) ==
    FixedOf(v.n[1], MathRound(WideMul(WideAbs(v), Wide(TenTo(precision), 1))), precision)

\* Math.abs(num) < 1e-10
WideTiny(v) == WideAbsBelow(WideMul(v, Wide(100000, 1)), 100000)

\* Lines 25-26
formatNumberDecimal(num, precision) ==
    IF WideTiny(NumberOf(num)) THEN Whole(0)
    ELSE Decimal(toFixed(NumberOf(num), precision))

\* Lines 145-146: math.fraction(num) is n / d for an argument n / d; for a
\* multiple of Math.PI its d is no small number.
SmallFraction(num) == num.unit = "one" /\ num.d < 20 /\ Abs(num.n) < 1000

FractionOrDecimal(num, precision) ==
    IF SmallFraction(num)
        THEN IF num.d = 1 THEN Whole(num.n) ELSE Fraction(num.n, num.d)
        ELSE Decimal(toFixed(NumberOf(num), precision))

\* Lines 136-141 with n = Math.round(ratio).
PiString(k, denom) == IF k = 0 THEN Whole(0) ELSE PiForm(k, denom)

\* Lines 133-143: the loop over denoms from position j on.
RECURSIVE PiLoop(_, _, _, _)
PiTry(num, v, j, precision, ratio, k) ==
    IF WideAbsBelow(WideSub(ratio, Wide(k, 1)), epsilon) THEN PiString(k, denoms[j])
    ELSE PiLoop(num, v, j + 1, precision)

PiRound(num, v, j, precision, ratio) ==
    PiTry(num, v, j, precision, ratio, MathRound(ratio))

PiLoop(num, v, j, precision) ==
    IF j > Len(denoms) THEN FractionOrDecimal(num, precision)
    ELSE PiRound(num, v, j, precision, Ratio(v, denoms[j]))

\* A faulty order: the multiples of pi are looked for before the whole numbers.
LatexPiFirst(num, v, precision, k) ==
    IF WideAbsBelow(v, epsilon) THEN Whole(0)
    ELSE IF PiLoop(num, v, 1, precision).form = "pi" THEN PiLoop(num, v, 1, precision)
    ELSE IF NearWhole(v, k) THEN Whole(k)
    ELSE PiLoop(num, v, 1, precision)

\* Lines 129-131 with v the number and k = Math.round(num).
LatexOf(num, v, precision, k) ==
    IF WideAbsBelow(v, epsilon) THEN Whole(0)
    ELSE IF NearWhole(v, k) THEN Whole(k)
    ELSE PiLoop(num, v, 1, precision)

\* precision !== undefined ? precision : 4
formatNumberToLatex(num, precision) ==
    LatexOf(num, NumberOf(num), IF precision = Undefined THEN 4 ELSE precision[1],
            MathRound(NumberOf(num)))

\* The arguments: fractions, among them 71, 355 and 22/7, numbers next to
\* whole numbers and to 0, numbers around 1e-10, and multiples of Math.PI.
FormatNumbers ==
    { [n |-> n, d |-> d, unit |-> "one"] :
          n \in {-7, 0, 1, 5, 22, 71, 355, 999, 1001}, d \in {1, 7, 19, 20} }
    \cup { [n |-> n, d |-> 10000, unit |-> "one"] : n \in {5, 11, 9991, -9999, 31416} }
    \cup { [n |-> n, d |-> 20000, unit |-> "millionth"] : n \in {-1, 1, 3} }
    \cup { [n |-> n, d |-> d, unit |-> "pi"] : n \in {-3, 1, 2, 5}, d \in {1, 2, 7, 24} }

\* Lowest terms.
FormatArguments == { num \in FormatNumbers : GCD(Abs(num.n), num.d) = 1 }

\* The optional argument: not given, or <<precision>>.
Precisions == {Undefined, <<2>>}

InitFormat ==
    /\ InitSolver
    /\ \E num \in FormatArguments, precision \in Precisions :
           input = [num |-> num, precision |-> precision]

callFormatNumberToLatex ==
    /\ output = << >>
    /\ output' = <<[fn |-> "formatNumberToLatex",
                    string |-> formatNumberToLatex(input.num, input.precision)]>>
    /\ UNCHANGED <<sceneVars, appVars, callVars, pass, last, removalVars, input, pending>>

\* formatNumberDecimal(num, precision) with the default precision of 4.
callFormatNumberDecimal ==
    /\ output = << >>
    /\ output' = <<[fn |-> "formatNumberDecimal",
                    string |-> formatNumberDecimal(input.num,
                                                   IF input.precision = Undefined THEN 4
                                                   ELSE input.precision[1])]>>
    /\ UNCHANGED <<sceneVars, appVars, callVars, pass, last, removalVars, input, pending>>

NextFormat ==
    \/ callFormatNumberToLatex
    \/ callFormatNumberDecimal

SpecFormat == InitFormat /\ [][NextFormat]_vars

(***************************************************************************)
(* SpecDepth: one call of the resolver on chains of points, each given by  *)
(* an expression that names the point before it in the chain, with the     *)
(* objects of the list in every order.                                     *)
(***************************************************************************)
ChainLabels == <<"A", "B", "C", "D", "E", "F", "G", "H">>

\* The levels of the chains that are taken in every order.
MaxChain == 5

ChainForms == {"name", "dot", "y"}

\* B = (x_A + 1, 0), B = (A.x + 1, 0), B = (0, y(A) + 1)
ChainPoint(k, form) ==
    IF form = "name"
        THEN [Obj(IdAt(k), "freePoint", ChainLabels[k])
                 EXCEPT !.xExpr = <<Ref(Name("x_" \o ChainLabels[k - 1]), 1)>>]
    ELSE IF form = "dot"
        THEN [Obj(IdAt(k), "freePoint", ChainLabels[k])
                 EXCEPT !.xExpr = <<Ref(Dot(ChainLabels[k - 1], "x"), 1)>>]
    ELSE [Obj(IdAt(k), "freePoint", ChainLabels[k])
             EXCEPT !.yExpr = <<Ref(Call("y", ChainLabels[k - 1]), 1)>>]

\* The free point A = (1, 2) and n - 1 points, each one level above the one before.
Chain(n, form) ==
    [k \in 1..n |->
        IF k = 1 THEN [Obj(IdAt(1), "freePoint", ChainLabels[1]) EXCEPT !.x = R(1), !.y = R(2)]
        ELSE ChainPoint(k, form)]

Orders(n) == { p \in [1..n -> 1..n] : \A a, b \in 1..n : p[a] = p[b] => a = b }

Permuted(chain, p) == [k \in 1..Len(chain) |-> chain[p[k]]]

Reversed(n) == [k \in 1..n |-> n + 1 - k]
Identity(n) == [k \in 1..n |-> k]

\* The chain of n points in every order.
ChainOrders(n) ==
    { Permuted(Chain(n, form), p) : form \in ChainForms, p \in Orders(n) }

\* Every order of the chains of up to MaxChain levels, and the chain of one
\* more level in list order and in the opposite order.
DepthScenes ==
    UNION { ChainOrders(n) : n \in 2..(MaxChain + 1) }
    \cup { Permuted(Chain(MaxChain + 2, "name"), p) :
               p \in {Identity(MaxChain + 2), Reversed(MaxChain + 2)} }

InitDepth == InitWith(SceneFunctions, SceneParams, DepthScenes)

SpecDepth == InitDepth /\ [][NextCall]_vars

(***************************************************************************)
(* SpecOrder: one call of the resolver on the chains and on scenes of      *)
(* points on curves, intersections, zeros and points given by expressions  *)
(* on them, with the objects of the list in every order.                   *)
(***************************************************************************)
\* C = (x_R_1, 0) on the first zero of h; B = (x_A + 1, 0) on a point on h
\* and D = (0, y_I) on the intersection of f and g.
MixedScenes ==
    { << FreePointAt(1), FuncAnalysisAt(2, "zeros", 3, Undefined),
         ExprPointAt(3, Ref(Name("x_R_1"), 0)) >>,
      << PointOnAt(1, 3, R(-1)), ExprPointAt(2, Ref(Name("x_A"), 1)),
         IntersectionAt(3, 1, 2, R(1)), ExprPointY(4, Ref(Name("y_I"), 0)) >> }

EveryOrder(scene) == { Permuted(scene, p) : p \in Orders(Len(scene)) }

OrderScenes == DepthScenes \cup UNION { EveryOrder(scene) : scene \in MixedScenes }

InitOrder == InitWith(SceneFunctions, SceneParams, OrderScenes)

SpecOrder == InitOrder /\ [][NextCall]_vars

(***************************************************************************)
(* Properties                                                              *)
(***************************************************************************)
Ids(analyses) == {analyses[k].id : k \in 1..Len(analyses)}

\* C1: within one call of calculateWorldPoints no object is resolved twice:
\* the list of points never holds two points with the same id, the
\* sub-result ids "{id}-{n}" of a func_analysis without x included,
\* whatever the number of rounds.
NoDuplicateIds ==
    \A j, k \in 1..Len(points) : j # k => points[j].id # points[k].id

\* The labels L whose coordinate x_L or y_L an expression of the object names.
NamedBy(an) ==
    {sanitizeSymbol(e.s).head : e \in Range(an.xExpr) \cup Range(an.yExpr)}

DependsOn(j, k) ==
    /\ activeAnalyses[k].label # ""
    /\ \/ ("x_" \o activeAnalyses[k].label) \in NamedBy(activeAnalyses[j])
       \/ ("y_" \o activeAnalyses[k].label) \in NamedBy(activeAnalyses[j])

RECURSIVE Reaches(_, _, _)
Reaches(j, k, n) ==
    /\ n > 0
    /\ \/ DependsOn(j, k)
       \/ \E m \in 1..Len(activeAnalyses) : DependsOn(j, m) /\ Reaches(m, k, n - 1)

\* The object at k is a member of a cycle of coordinate references.
OnCycle(k) == Reaches(k, k, Len(activeAnalyses))

NoCyclePoint ==
    \A k \in 1..Len(activeAnalyses) : OnCycle(k) => ~HasPoint(points, activeAnalyses[k].id)

\* The number of steps the call can still take: the objects left in this
\* round, the end of the round, and the rounds after it.
Remaining ==
    IF pc = "idle" THEN MaxRounds * (Len(activeAnalyses) + 1) + 1
    ELSE IF pc = "round"
        THEN (MaxRounds - 1 - i) * (Len(activeAnalyses) + 1) + (Len(activeAnalyses) + 1 - idx) + 1
    ELSE 0

\* Every step of the call uses up one of the steps that remain.
Progress == Remaining' < Remaining

\* Until the call has ended its next step is defined.
InsideLoop ==
    /\ pc \in {"idle", "round", "done"}
    /\ i \in 0..(MaxRounds - 1)
    /\ idx \in 1..(Len(activeAnalyses) + 1)
    /\ Remaining >= 0

\* C2: on a scene in which points given by expressions name each other's
\* coordinates in a cycle, calculateWorldPoints ends within the 5 rounds
\* (every step brings the end nearer and the round counter stays below 5),
\* throws nothing, and returns no point for any member of the cycle.
CycleSafe ==
    /\ [](InsideLoop /\ (pc = "done" => NoCyclePoint))
    /\ [][Progress]_vars

\* The call has ended on A = (x_B + 1, 0), B = (x_A + 1, 0) with neither point.
CycleWitness ==
    /\ pc = "done"
    /\ Len(activeAnalyses) = 2
    /\ activeAnalyses[1].xExpr = <<Ref(Name("x_B"), 1)>>
    /\ activeAnalyses[2].xExpr = <<Ref(Name("x_A"), 1)>>
    /\ OnCycle(1) /\ OnCycle(2)
    /\ points = << >>

\* C3: the cycle guard of the slope evaluator covers every shape of
\* reference: on any list of constructions (a slope value that targets
\* itself, two that target each other, tangents whose curves name each
\* other's slopes) calculateObjectSlope and createMathScope come to an end.
SlopeEvaluatorTerminates ==
    /\ ~createMathScope(params, points, activeAnalyses, functions, {}, << >>).thrown
    /\ \A k \in 1..Len(activeAnalyses) :
           calculateObjectSlope(activeAnalyses[k], functions, activeAnalyses, params,
                                points, {}, << >>) # Throw

\* A reference of the object names nothing that exists.
Dangling(an) ==
    \/ \E k \in 1..Len(an.vertices) : an.vertices[k] \notin Ids(activeAnalyses)
    \/ an.targetId # "" /\ an.targetId \notin Ids(activeAnalyses)
    \/ an.funcId # 0 /\ FindFunction(functions, an.funcId) = 0
    \/ an.funcId2 # 0 /\ FindFunction(functions, an.funcId2) = 0

WrongLength(an) == an.type \in LineTypes /\ Len(an.vertices) # 2

Failing(an) == Dangling(an) \/ WrongLength(an)

IsFreePoint(an) == an.type = "freePoint" /\ an.xExpr = << >> /\ an.yExpr = << >>

FreePointsReturned ==
    \A k \in 1..Len(activeAnalyses) :
        IsFreePoint(activeAnalyses[k]) =>
            \E j \in 1..Len(points) :
                /\ points[j].id = activeAnalyses[k].id
                /\ points[j].x = OrZero(activeAnalyses[k].x)
                /\ points[j].y = OrZero(activeAnalyses[k].y)

\* C4: failures are local: on a scene with an object whose reference names
\* nothing, or whose vertices list has the wrong length, calculateWorldPoints
\* still returns (nothing is thrown), that object has no point, and every
\* freePoint without expressions is returned with its own x and y.
FailuresLocal ==
    (pc \in {"done", "thrown"} /\ \E k \in 1..Len(activeAnalyses) : Failing(activeAnalyses[k]))
    => /\ pc = "done"
       /\ FreePointsReturned
       /\ \A k \in 1..Len(activeAnalyses) :
              Failing(activeAnalyses[k]) => ~HasPoint(points, activeAnalyses[k].id)

\* The object refers to one of the ids.
RefersTo(obj, ids) ==
    \/ \E k \in 1..Len(obj.vertices) : obj.vertices[k] \in ids
    \/ obj.targetId # "" /\ obj.targetId \in ids

\* The ids from which one of `ids` is reached in at most n references.
RECURSIVE Dependents(_, _, _)
Dependents(ids, analyses, n) ==
    IF n = 0 THEN ids
    ELSE Dependents(ids \cup {analyses[k].id : k \in {j \in 1..Len(analyses) :
                                                         RefersTo(analyses[j], ids)}},
                    analyses, n - 1)

\* C5: the set getObjectsToRemove returns holds targetId itself (also when
\* no object has that id) and every object from which targetId is reached
\* through a chain of vertices or targetId references of any length.
CascadeComplete ==
    before # << >> =>
        /\ before[1].id \in removed
        /\ Dependents({before[1].id}, before[1].analyses, Len(before[1].analyses))
               \subseteq removed

\* Line{A, B} and SlopeValue{target = Line}: removing A gave A, Line and SlopeValue.
CascadeWitness ==
    /\ before # << >>
    /\ Len(before[1].analyses) = 4
    /\ IsFreePoint(before[1].analyses[1])
    /\ IsFreePoint(before[1].analyses[2])
    /\ before[1].analyses[3].type = "line"
    /\ before[1].analyses[3].vertices = <<"1", "2">>
    /\ before[1].analyses[4].type = "slope_analysis"
    /\ before[1].analyses[4].targetId = "3"
    /\ before[1].id = "1"
    /\ removed = {"1", "3", "4"}

\* C6: after removeAnalysis(id) has deleted the ids getObjectsToRemove
\* returned, no object that remains has a vertices entry or a targetId that
\* is one of the deleted ids, on graphs with cycles of references too.
NoDanglingAfterRemoval ==
    before # << >> =>
        /\ activeAnalyses = removeAnalysisFrom(before[1].id, before[1].analyses, removed)
        /\ \A k \in 1..Len(activeAnalyses) : ~RefersTo(activeAnalyses[k], removed)

\* A slope value listed before the line it targets, the line listed before
\* its endpoint: the endpoint was removed and took both with it.
RemovalWitness ==
    /\ before # << >>
    /\ Len(before[1].analyses) = 3
    /\ before[1].analyses[1].type = "slope_analysis"
    /\ before[1].analyses[1].targetId = "2"
    /\ before[1].analyses[2].type = "line"
    /\ before[1].analyses[2].vertices = <<"1", "3">>
    /\ IsFreePoint(before[1].analyses[3])
    /\ before[1].id = "3"
    /\ activeAnalyses = << >>

\* C7: reference integrity of the scene: after any sequence of operations
\* every vertices entry and targetId of a construction names a construction
\* of the list, and every funcId / funcId2 names a function of the list.
ReferenceIntegrity ==
    \A k \in 1..Len(activeAnalyses) : ~Dangling(activeAnalyses[k])

Unchanging == pc \in {"idle", "round"} => UNCHANGED sceneVars

SameAsBefore ==
    (pc \in {"done", "thrown"} /\ last # NoLast /\ last[1].inputs = Inputs)
    => (last[1].points = points /\ last[1].pc = pc)

\* C8: a recomputation is idempotent: two calls of calculateWorldPoints with
\* the same functions, parameters and constructions return the same list of
\* points (ids, coordinates, labels, order), and a call leaves its input
\* lists as they are.
RecomputationIdempotent == []SameAsBefore /\ [][Unchanging]_vars

\* The second call on the same lists has ended with the points of the first.
IdempotentWitness ==
    /\ pc = "done"
    /\ pass = 2
    /\ last # NoLast
    /\ last[1].inputs = Inputs
    /\ Len(points) >= 2
    /\ last[1].points = points

\* The object is a pointOn_analysis that reaches lines 496-513.
IsPointOn(an) ==
    /\ an.type = "pointOn_analysis"
    /\ an.xExpr = << >> /\ an.yExpr = << >>
    /\ an.funcId # 0 /\ FindFunction(functions, an.funcId) # 0
    /\ an.x # Undefined

CurveOf(an) == functions[FindFunction(functions, an.funcId)]

ScopeNow == createMathScope(params, points, activeAnalyses, functions, {}, << >>).scope

OutOfRange(an, f, scope) ==
    \/ f.rangeMin # << >> /\ RLt(an.x, evaluate(sanitizeExpression(f.rangeMin[1]), scope))
    \/ f.rangeMax # << >> /\ RLt(evaluate(sanitizeExpression(f.rangeMax[1]), scope), an.x)

PointsOf(pts, id) == {j \in 1..Len(pts) : pts[j].id = id}

OnCurveAt(an, f, scope, y) ==
    IF OutOfRange(an, f, scope) THEN PointsOf(points, an.id) = {}
    ELSE isFinite(y) =>
            /\ Cardinality(PointsOf(points, an.id)) = 1
            /\ \A j \in PointsOf(points, an.id) : points[j].x = an.x /\ points[j].y = y

OnCurve(an, f, scope) ==
    OnCurveAt(an, f, scope, evaluate(sanitizeExpression(f.expression), ("x" :> an.x) @@ scope))

\* C9: a pointOn_analysis whose x is below the evaluated rangeMin or above
\* the evaluated rangeMax of its curve has no point in the output of the
\* pass; one whose x is within the bounds (ends included) on a curve with a
\* finite value there has exactly the point (x, f(x)); this holds in every
\* pass, so the point is back in the first pass that finds x in range.
PointOnDomain ==
    pc = "done" =>
        \A k \in 1..Len(activeAnalyses) :
            IsPointOn(activeAnalyses[k]) =>
                OnCurve(activeAnalyses[k], CurveOf(activeAnalyses[k]), ScopeNow)

\* A pass that left a pointOn_analysis out was followed by a pass, after a
\* change of a parameter or of x, that has its point.
PointOnWitness ==
    /\ pc = "done"
    /\ last # NoLast
    /\ last[1].pc = "done"
    /\ \E k \in 1..Len(activeAnalyses) :
           /\ IsPointOn(activeAnalyses[k])
           /\ PointsOf(last[1].points, activeAnalyses[k].id) = {}
           /\ PointsOf(points, activeAnalyses[k].id) # {}

IsSubResultOf(p, owner) ==
    /\ owner.type = "func_analysis"
    /\ owner.x = Undefined
    /\ \E n \in 0..Len(points) : p.id = owner.id \o "-" \o ToString(n)
    /\ p.id \notin Ids(activeAnalyses)

OwnedBy(p, owner) == p.id = owner.id \/ IsSubResultOf(p, owner)

\* C10: every point of calculateWorldPoints is owned by the object at its
\* analysisIndex: its id is the id of the owner, or "{owner.id}-{n}" with
\* the owner a func_analysis without x; no sub-result id is the id of a
\* construction of the scene.
PointsOwned ==
    pc \in {"round", "done"} =>
        \A j \in 1..Len(points) :
            /\ points[j].analysisIndex \in 1..Len(activeAnalyses)
            /\ OwnedBy(points[j], activeAnalyses[points[j].analysisIndex])

\* A call has ended with a point owned by id and a sub-result of the object
\* at position 2.
OwnedWitness ==
    /\ pc = "done"
    /\ \E j, k \in 1..Len(points) :
           /\ points[j].id = activeAnalyses[points[j].analysisIndex].id
           /\ points[k].analysisIndex = 2
           /\ points[k].id = "2-1"

(***************************************************************************)
(* Properties of the scope, the solvers and the application state          *)
(***************************************************************************)
\* The four names createMathScope writes for a label (lines 442-445).
AliasNames(label) == {label, "declive_" \o label, "slope_" \o label, "m_" \o label}

\* All four names are defined with one finite value.
AllDefined(scope, label) ==
    /\ AliasNames(label) \subseteq DOMAIN scope
    /\ isFinite(scope[label])
    /\ \A n \in AliasNames(label) : scope[n] = scope[label]

NoneDefined(scope, label) == AliasNames(label) \cap DOMAIN scope = {}

\* The endpoints of a two-point line among the points resolved so far.
Endpoint(an, n, pts) ==
    IF HasPoint(pts, an.vertices[n])
        THEN <<CHOOSE p \in Range(pts) : p.id = an.vertices[n]>>
        ELSE << >>

\* (y2 - y1) / (x2 - x1) of a line whose two endpoints are resolved and differ in x.
TwoPointSlope(p1, p2) == RDiv(RSub(p2.y, p1.y), RSub(p2.x, p1.x))

LineAliases(an, scope, e1, e2) ==
    IF e1 = << >> \/ e2 = << >> THEN NoneDefined(scope, an.label)
    ELSE IF e1[1].x = e2[1].x THEN NoneDefined(scope, an.label)
    ELSE AllDefined(scope, an.label) /\ scope[an.label] = TwoPointSlope(e1[1], e2[1])

\* A SlopeValue carries the slope of its target: the value the scope has
\* under the label of the target, and nothing when the target is missing.
SlopeValueAliases(an, scope, analyses, visited, t) ==
    IF t = 0 THEN NoneDefined(scope, an.label)
    ELSE IF analyses[t].type \notin SlopeTypes \/ analyses[t].id \in visited
        THEN NoneDefined(scope, an.label)
    ELSE IF AllDefined(scope, analyses[t].label)
        THEN AllDefined(scope, an.label) /\ scope[an.label] = scope[analyses[t].label]
    ELSE NoneDefined(scope, an.label)

AliasesOfObject(an, scope, analyses, pts, visited) ==
    /\ AllDefined(scope, an.label) \/ NoneDefined(scope, an.label)
    /\ an.type \in LineTypes /\ Len(an.vertices) = 2
           => LineAliases(an, scope, Endpoint(an, 1, pts), Endpoint(an, 2, pts))
    /\ an.type \in LineTypes /\ Len(an.vertices) # 2 => NoneDefined(scope, an.label)
    /\ an.type = "slope_analysis"
           => SlopeValueAliases(an, scope, analyses, visited,
                                FindAnalysis(analyses, an.targetId))

\* createMathScope returned sc for the visited set.
AliasesIn(sc, analyses, pts, visited) ==
    /\ ~sc.thrown
    /\ \A k \in 1..Len(analyses) :
           (/\ analyses[k].label # ""
            /\ analyses[k].type \in SlopeTypes
            /\ analyses[k].id \notin visited)
               => AliasesOfObject(analyses[k], sc.scope, analyses, pts, visited)

\* The visited sets createMathScope is called with: none (line 481) or the
\* id of the tangent that is being evaluated (line 420).
VisitedSets == {{}} \cup {{activeAnalyses[k].id} : k \in 1..Len(activeAnalyses)}

\* C11: for every labelled line, segment, ray, tangent or slope value that
\* is not in the visited set, createMathScope returns a scope that has all
\* four names label, declive_label, slope_label, m_label with one finite
\* value (the two-point slope for a line, the slope of its target for a
\* slope value) or none of them: none when an endpoint is unresolved, the
\* target is missing or the line is vertical.
SlopeAliasContract ==
    \A visited \in VisitedSets :
        AliasesIn(createMathScope(params, points, activeAnalyses, functions, visited, << >>),
                  activeAnalyses, points, visited)

\* The same on the scenes on which createMathScope returns.
SlopeAliasContractWhereReturned ==
    \A visited \in VisitedSets :
        \/ createMathScope(params, points, activeAnalyses, functions, visited, << >>).thrown
        \/ AliasesIn(createMathScope(params, points, activeAnalyses, functions, visited, << >>),
                     activeAnalyses, points, visited)

\* A slope value has the slope of the line it targets.
SlopeAliasReached ==
    /\ ~createMathScope(params, points, activeAnalyses, functions, {}, << >>).thrown
    /\ \E k \in 1..Len(activeAnalyses) :
           /\ activeAnalyses[k].type = "slope_analysis"
           /\ AllDefined(createMathScope(params, points, activeAnalyses, functions, {}, << >>).scope,
                         activeAnalyses[k].label)

\* The roots that are candidates: finite, with a finite y on the first curve.
CandidateRoots ==
    {r \in Range(input.roots) :
        /\ isFinite(r)
        /\ evaluate(sanitizeExpression(input.f1.expression),
                    ("x" :> r) @@ ParamScope(params, Len(params))) # Throw}

Far(r, targetX) == ~RLt(RAbs(RSub(r, targetX)), R(ProximityThreshold))

Nearer(r, s, targetX) == RLt(RAbs(RSub(r, targetX)), RAbs(RSub(s, targetX)))

Defined(f1, f2) == f1.id # f2.id /\ f1.type = "function" /\ f2.type = "function"

\* With nearX: at most one result, a candidate no other candidate is nearer
\* than, and none when the nearest is 5 or more away.
SelectedNear(res, targetX) ==
    /\ Len(res) <= 1
    /\ Len(res) = 1 =>
           /\ res[1].x \in CandidateRoots
           /\ ~Far(res[1].x, targetX)
           /\ \A r \in CandidateRoots : ~Nearer(r, res[1].x, targetX)
    /\ Len(res) = 0 => \A r \in CandidateRoots : Far(r, targetX)

\* Without nearX: every candidate, once.
SelectedAll(res) ==
    /\ {res[k].x : k \in 1..Len(res)} = CandidateRoots
    /\ \A j, k \in 1..Len(res) : j # k => res[j].x # res[k].x

IntersectionSelected(res) ==
    /\ ~Defined(input.f1, input.f2) => res = << >>
    /\ Defined(input.f1, input.f2) /\ input.targetX # Undefined
           => SelectedNear(res, input.targetX)
    /\ Defined(input.f1, input.f2) /\ input.targetX = Undefined => SelectedAll(res)
    /\ input.f1.id = 1 /\ input.f2.id = 2 /\ input.targetX = Undefined
           => {res[k].x : k \in 1..Len(res)} = {R(0), R(1)}
    /\ input.f1.id = 1 /\ input.f2.id = 2 /\ input.targetX = <<9, 10>>
           => res = <<[x |-> R(1), y |-> R(1)]>>

\* C12: with nearX solveIntersection returns at most one result, the
\* candidate root closest to nearX when it is less than 5 away and the empty
\* list otherwise; without nearX it returns every candidate once (0 and 1
\* for y = x and y = x^2, only x = 1 with nearX = 0.9).
IntersectionSelection == output # << >> => IntersectionSelected(output[1])

\* A call with nearX that found two candidates and returned the nearer one,
\* and a call whose nearest candidate was too far.
IntersectionWitness ==
    /\ output # << >>
    /\ input.targetX # Undefined
    /\ Cardinality(CandidateRoots) = 2
    /\ Len(output[1]) = 1
    /\ \E r \in CandidateRoots : Nearer(output[1][1].x, r, input.targetX)

\* C13: solveSymbolic returns no two results with the same x, whatever
\* list of roots the CAS returned, a list that names a root more than once
\* included.
SymbolicDeduplicated ==
    output # << >> =>
        \A j, k \in 1..Len(output[1]) : j # k => output[1][j].x # output[1][k].x

\* The same when the CAS names every root once.
SymbolicDistinctOnDistinctRoots ==
    (output # << >> /\ \A j, k \in 1..Len(input.roots) : j # k => input.roots[j] # input.roots[k])
        => \A j, k \in 1..Len(output[1]) : j # k => output[1][j].x # output[1][k].x

\* The points an unanchored func_analysis of the curve gets from
\* calculateWorldPoints.
SubResultPoints(expression, type) ==
    calculatedPoints(<<Func(1, "f", expression)>>, params,
                     <<FuncAnalysisAt(1, type, 1, Undefined)>>)

AllFinite(res) == \A k \in 1..Len(res) : isFinite(res[k].x) /\ isFinite(res[k].y)

\* C14: every result of solveSymbolic, and so every sub-result point of an
\* unanchored func_analysis that calculateWorldPoints returns, has a finite
\* x and a finite y.
SymbolicFinite ==
    output # << >> =>
        /\ AllFinite(output[1])
        /\ AllFinite(SubResultPoints(input.expression, input.type))

\* The x of every result is finite.
SymbolicFiniteX ==
    output # << >> => \A k \in 1..Len(output[1]) : isFinite(output[1][k].x)

\* The loop of the resolver: the round counter stays below 5, a step of a
\* round goes on to the next object (no object is attempted twice in a
\* round), and a round that added no point is the last.
RoundsBounded == i < MaxRounds /\ idx <= Len(activeAnalyses) + 1

RoundStep ==
    /\ pc = "done" => pc' = "done"
    /\ (pc = "round" /\ callVars' # callVars) =>
           /\ (pc' = "round" /\ i' = i) => idx' = idx + 1
           /\ i' # i => (i' = i + 1 /\ idx' = 1 /\ idx = Len(activeAnalyses) + 1)
           /\ (idx > Len(activeAnalyses) /\ Len(points) = startCount) => pc' = "done"

\* The loop of solveClosest: at most 30 passes through its body.
NewtonBounded ==
    output # << >> =>
        /\ output[1].iterations <= NewtonIterations
        /\ output[1].i <= NewtonIterations

NewtonStepCounts ==
    (output # << >> /\ output' # output) =>
        /\ output'[1].iterations \in {output[1].iterations, output[1].iterations + 1}
        /\ output[1].at = "returned" => FALSE

\* C15: one call of calculateWorldPoints runs at most 5 rounds, attempts an
\* object at most once per round and stops after the first round that adds
\* no point; one call of solveClosest runs at most 30 Newton iterations and
\* then returns.
BoundedWork ==
    /\ [](RoundsBounded /\ NewtonBounded)
    /\ [][RoundStep /\ NewtonStepCounts]_vars

\* A call that ran all five rounds and a solveClosest that ran all 30 iterations.
BoundedWorkWitness ==
    /\ pc = "done"
    /\ i = MaxRounds - 1
    /\ Len(points) > startCount
    /\ output # << >>
    /\ output[1].at = "returned"
    /\ output[1].iterations = NewtonIterations

Returned == output # << >> /\ output[1].at = "returned"

\* The step-by-step solveClosest returns what the resolver's solveClosest returns.
NewtonAgrees ==
    (Returned /\ output[1].iterations < NewtonIterations \div 2)
        => output[1].result
               = solveClosest(input.expression, input.type, input.targetX, params, << >>)


\* C18 as stated: for min / max solveClosest returns null whenever the sign
\* of the second derivative at the converged point contradicts the subtype.
ExtremumRejectedBySign ==
    Returned =>
        /\ input.type = "max" /\ RLt(R(0), f_prime_prime(input.expression))
               => output[1].result = Undefined
        /\ input.type = "min" /\ RLt(f_prime_prime(input.expression), R(0))
               => output[1].result = Undefined

\* C18: for min / max solveClosest returns null when the second derivative
\* at the converged point is more than 1e-5 on the side that contradicts the
\* subtype (max above 1e-5, min below -1e-5), and a converged point whose
\* second derivative is within 1e-5 of zero is returned for either subtype;
\* for -(x^2) from targetX = 1 the max query returns (0, 0) and the min
\* query returns null.
ExtremumClassified ==
    Returned =>
        /\ input.type = "max" /\ RLt(<<1, 100000>>, f_prime_prime(input.expression))
               => output[1].result = Undefined
        /\ input.type = "min" /\ RLt(f_prime_prime(input.expression), <<-1, 100000>>)
               => output[1].result = Undefined
        /\ (input.type \in {"min", "max"} /\ output[1].found
                /\ ~RLt(<<1, 100000>>, f_prime_prime(input.expression))
                /\ ~RLt(f_prime_prime(input.expression), <<-1, 100000>>))
               => output[1].result # Undefined
        /\ (input.expression = Poly(-1, 0, 0, NoSym) /\ input.targetX = R(1)
                /\ input.type = "max")
               => output[1].result = <<[x |-> R(0), y |-> R(0)]>>
        /\ (input.expression = Poly(-1, 0, 0, NoSym) /\ input.targetX = R(1)
                /\ input.type = "min")
               => output[1].result = Undefined

\* The max query on x^2 / 250000 converged on the minimum at 0, where the
\* second derivative is 8e-6, and the point was returned.
ExtremumWitness ==
    /\ Returned
    /\ input.expression = Scaled(Poly(1, 0, 0, NoSym), 250000)
    /\ input.type = "max"
    /\ input.targetX = R(1)
    /\ output[1].found
    /\ output[1].currentX = R(0)
    /\ output[1].result = <<[x |-> R(0), y |-> R(0)]>>

\* The min query on -(x^2) converged on the maximum at 0 and was rejected.
ExtremumRejected ==
    /\ Returned
    /\ input.expression = Poly(-1, 0, 0, NoSym)
    /\ input.type = "min"
    /\ input.targetX = R(1)
    /\ output[1].found
    /\ output[1].currentX = R(0)
    /\ output[1].result = Undefined

(***************************************************************************)
(* The cascade of derived curves                                           *)
(***************************************************************************)
PositionOf(funcs, id) == FirstIndex(funcs, "id", id)

\* The number of derivations between the curve gid and the curve root, or
\* -1 when gid is not derived from root.
RECURSIVE LevelBelow(_, _, _, _)
LevelUp(up) == IF up < 0 THEN -1 ELSE up + 1

LevelFrom(funcs, k, root, fuel) ==
    IF k = 0 THEN -1
    ELSE IF DerivedFrom(funcs[k]) = 0 THEN -1
    ELSE LevelUp(LevelBelow(funcs, DerivedFrom(funcs[k]), root, fuel - 1))

LevelBelow(funcs, gid, root, fuel) ==
    IF gid = root THEN 0
    ELSE IF fuel = 0 THEN -1
    ELSE LevelFrom(funcs, PositionOf(funcs, gid), root, fuel)

\* The last edit typed an expression.
Submitted == input # << >> /\ input.val # NoExpression

\* The level of the curve at k below the curve of the last edit.
LevelOf(k) == LevelBelow(input.functions, input.functions[k].id, input.id, Len(input.functions))

ParentOf(k) == PositionOf(functions, DerivedFrom(functions[k]))

\* The curve at k is the derivative or the integral of its parent as it is now.
Recomputed(k) ==
    functions[k].expression = NewExpr(functions[k], functions[ParentOf(k)].expression)

KeptOld(k) == functions[k].expression = input.functions[k].expression

Changed(k) == functions[k].expression # input.functions[k].expression

\* C16: after an edit every curve derived from the edited one, up to five
\* derivation levels below it, is the derivative or the integral of its
\* parent's new expression, and a curve more than five levels below it keeps
\* its old expression.
CascadeToDepthFive ==
    (Submitted /\ Len(functions) = Len(input.functions)) =>
        \A k \in 1..Len(functions) :
            /\ (LevelOf(k) >= 1 /\ LevelOf(k) <= CascadeDepth) => Recomputed(k)
            /\ LevelOf(k) > CascadeDepth => KeptOld(k)

\* What the cascade does: it follows changed expressions down to level six.
CascadeToLevelSix ==
    (Submitted /\ Len(functions) = Len(input.functions)) =>
        \A k \in 1..Len(functions) :
            /\ LevelOf(k) = 1 => Recomputed(k)
            /\ (LevelOf(k) >= 2 /\ LevelOf(k) <= CascadeDepth + 1)
                   => IF Changed(ParentOf(k)) THEN Recomputed(k) ELSE KeptOld(k)
            /\ (LevelOf(k) > CascadeDepth + 1 \/ LevelOf(k) < 0) => KeptOld(k)
            /\ LevelOf(k) = 0 => functions[k].expression = input.val

\* A curve six levels below the edited one got a new expression.
LevelSixRecomputed ==
    /\ Submitted
    /\ Len(functions) = Len(input.functions)
    /\ \E k \in 1..Len(functions) :
           LevelOf(k) = CascadeDepth + 1 /\ Changed(k) /\ Recomputed(k)

(***************************************************************************)
(* Parameters                                                              *)
(***************************************************************************)
UniqueNames(ps) == \A j, k \in 1..Len(ps) : ps[j].name = ps[k].name => j = k

\* C17: after any sequence of operations, several in one event turn
\* included, params never holds two entries with the same name.
ParamsUnique == UniqueNames(params)

\* A response whose closure had no parameter b ran a command that appends b
\* and a command whose updater finds b among its candidates, while the list
\* was no longer the one of the closure.
ParamsUniqueWitness ==
    /\ pending = << >>
    /\ output # << >>
    /\ ~HasParam(output[1].closure.params, "b")
    /\ HasParam(params, "b")
    /\ \E j, k \in 1..Len(output[1].updates) :
           /\ j < k
           /\ output[1].updates[j].op = "setParams"
           /\ HasParam(output[1].updates[j].params, "b")
           /\ output[1].updates[k].op = "detect"
           /\ "b" \in Range(output[1].updates[k].syms)
           /\ "b" \notin Range(output[1].updates[k].ignoreList)
    /\ history[historyIndex].params # output[1].closure.params

(***************************************************************************)
(* Marching squares                                                        *)
(***************************************************************************)
Drawn == output # << >> /\ output[1].at = "drawn"

Cols == GridCount(input.width)
Rows == GridCount(input.height)
Grid == gridValues(input.outcomes)

CellsOfGrid == {<<x, y>> : x \in 0..(Cols - 2), y \in 0..(Rows - 2)}

\* The cell at column x, row y has NaN at one of its four corners.
Undefined4(x, y) ==
    \/ isNaN(Grid[y * Cols + x + 1])
    \/ isNaN(Grid[y * Cols + x + 2])
    \/ isNaN(Grid[y * Cols + x + Cols + 2])
    \/ isNaN(Grid[y * Cols + x + Cols + 1])

Within(v, lo) == isFinite(v) /\ ~RLt(v, R(lo)) /\ ~RLt(R(lo + GridRes), v)

InCell(p, x, y) == Within(p.x, x * GridRes) /\ Within(p.y, y * GridRes)

ShapeInCell(shape, x, y) == \A k \in 1..Len(shape) : InCell(shape[k], x, y)

ShapesIn(shapes, x, y) ==
    LET Here(shape) == ShapeInCell(shape, x, y) IN SelectSeq(shapes, Here)

\* Every shape lies in a cell that has no NaN corner.
OnlyDefinedCells(shapes) ==
    \A k \in 1..Len(shapes) :
        \E cell \in CellsOfGrid :
            ~Undefined4(cell[1], cell[2]) /\ ShapeInCell(shapes[k], cell[1], cell[2])

\* C19: in the fill loop and in the outline loop a cell with NaN at a corner
\* emits no polygon and no segment, and every other cell is drawn from its
\* own four corners alone.
MarchingSkipsUndefined ==
    Drawn =>
        /\ OnlyDefinedCells(output[1].fill)
        /\ OnlyDefinedCells(output[1].outline)
        /\ \A cell \in CellsOfGrid :
               IF Undefined4(cell[1], cell[2])
                   THEN /\ ShapesIn(output[1].fill, cell[1], cell[2]) = << >>
                        /\ ShapesIn(output[1].outline, cell[1], cell[2]) = << >>
                   ELSE /\ ShapesIn(output[1].fill, cell[1], cell[2])
                               = (IF input.type = "inequality"
                                      THEN FillAt(Grid, Cols, cell[1], cell[2], input.operator)
                                      ELSE << >>)
                        /\ ShapesIn(output[1].outline, cell[1], cell[2])
                               = OutlineAt(Grid, Cols, cell[1], cell[2],
                                           input.type, input.operator)

\* A grid of four cells: the first has NaN at a corner the others do not
\* share, and the cell below the one next to it got a polygon and a segment.
MarchingWitness ==
    /\ Drawn
    /\ Cols = 3 /\ Rows = 3
    /\ isNaN(Grid[1])
    /\ ~Undefined4(1, 0) /\ ~Undefined4(0, 1) /\ ~Undefined4(1, 1)
    /\ ShapesIn(output[1].fill, 1, 1) # << >>
    /\ ShapesIn(output[1].outline, 1, 1) # << >>
    /\ ShapesIn(output[1].outline, 1, 0) # << >>

(***************************************************************************)
(* The memo of the calculated points                                       *)
(***************************************************************************)
\* C20: the calculatedPoints of a finished computation are the result of
\* calculateWorldPoints on the curves, parameters and constructions as they
\* are now ([] when it throws), whatever changes came before.
LatestInputWins ==
    /\ pc = "done" => points = calculatedPoints(functions, params, activeAnalyses)
    /\ pc = "thrown" =>
           /\ calculateWorldPoints(functions, params, activeAnalyses).thrown
           /\ calculatedPoints(functions, params, activeAnalyses) = << >>

\* The second change of the inputs gave points other than the ones before,
\* after a change of a curve.
LatestInputWitness ==
    /\ pc = "done"
    /\ pass = MaxPasses
    /\ last # NoLast
    /\ last[1].inputs.functions # SceneFunctions
    /\ last[1].inputs # Inputs
    /\ last[1].points # points
    /\ points # << >>

(***************************************************************************)
(* The scope builder has no side effects                                   *)
(***************************************************************************)
ListsAsGiven ==
    /\ functions = input.functions
    /\ params = input.params
    /\ activeAnalyses = input.activeAnalyses
    /\ points = input.calculatedPoints

\* Every active call finds in its visitedIds what the Set held when the
\* call was made.
VisitedAsReceived ==
    \A k \in 1..Len(output[1].stack) :
        output[1].heap[output[1].stack[k].visitedIds] = output[1].stack[k].received

\* C21: while createMathScope or calculateObjectSlope runs and after it has
\* returned or thrown, params, calculatedPoints, the constructions and the
\* curves are the lists given, the Set given to the first call and the Set
\* given to every call inside it hold what they held at the call: the
\* tangent branch adds the id to a Set of its own.
ScopeBuilderPure ==
    output # << >> =>
        /\ ListsAsGiven
        /\ output[1].heap[1] = input.visitedIds
        /\ VisitedAsReceived

\* createMathScope was called with a Set that holds an id, two tangents
\* inside each other made their copies and added their ids, and the call
\* returned.
ScopeBuilderWitness ==
    /\ output # << >>
    /\ input.call.fn = "createMathScope"
    /\ input.visitedIds # {}
    /\ output[1].stack = << >>
    /\ ~output[1].thrown
    /\ \E a, b \in 2..Len(output[1].heap) :
           /\ Cardinality(output[1].heap[a]) = Cardinality(input.visitedIds) + 1
           /\ Cardinality(output[1].heap[b]) = Cardinality(input.visitedIds) + 2
    /\ output[1].heap[1] = input.visitedIds

(***************************************************************************)
(* Newton convergence                                                      *)
(***************************************************************************)
\* |x - z| < 1e-6 for an integer z.
WithinMillionth(xv, z) == WideAbsBelow(WideSub(xv, Wide(z, 1)), 1000000)

\* |a - z| < |a - w|
WideNearer(a, z, w) ==
    WLt(WMul(WideSub(a, Wide(z, 1)).n[2], WideSub(a, Wide(w, 1)).d),
        WMul(WideSub(a, Wide(w, 1)).n[2], WideSub(a, Wide(z, 1)).d))

\* The zero of the curve no other zero is nearer to the start than; none
\* when two are equally near.
NearestZeros ==
    { z \in input.zeros : \A w \in input.zeros \ {z} : WideNearer(input.targetX, z, w) }

ConvergeReturned == output # << >> /\ output[1].at = "returned"

\* C22: solveClosest for the zeros of "x^2 - 4" returns x within 1e-6 of 2
\* from targetX = 3 and x within 1e-6 of -2 from targetX = -3; on every
\* curve and start of SpecConverge with one zero nearest to the start, the
\* x returned is within 1e-6 of that zero.
NewtonConverges ==
    ConvergeReturned =>
        /\ (input.expression = Poly(1, 0, -4, NoSym) /\ WideEq(input.targetX, Wide(3, 1))) =>
               (output[1].result # Undefined /\ WithinMillionth(output[1].result[1].x, 2))
        /\ (input.expression = Poly(1, 0, -4, NoSym) /\ WideEq(input.targetX, Wide(-3, 1))) =>
               (output[1].result # Undefined /\ WithinMillionth(output[1].result[1].x, -2))
        /\ \A z \in NearestZeros :
               output[1].result # Undefined /\ WithinMillionth(output[1].result[1].x, z)

\* x^2 - 4 from 3: the call went through the loop four times and returned
\* an x near 2 that is not 2.
NewtonConvergesWitness ==
    /\ ConvergeReturned
    /\ input.expression = Poly(1, 0, -4, NoSym)
    /\ WideEq(input.targetX, Wide(3, 1))
    /\ output[1].i = 4
    /\ output[1].found
    /\ WithinMillionth(output[1].result[1].x, 2)
    /\ ~WideEq(output[1].result[1].x, Wide(2, 1))

\* x^2 - 4 from -3 returned an x near -2.
NewtonConvergesBelow ==
    /\ ConvergeReturned
    /\ input.expression = Poly(1, 0, -4, NoSym)
    /\ WideEq(input.targetX, Wide(-3, 1))
    /\ WithinMillionth(output[1].result[1].x, -2)

(***************************************************************************)
(* The formatting rule                                                     *)
(***************************************************************************)
Formatted(fn) == output # << >> /\ output[1].fn = fn

\* A whole number near the argument n / d or (n / d) * pi is one of the four
\* around its quotient (355 / 113 for pi).
Around(q) == (q - 1)..(q + 2)

WholeCandidates(num) ==
    Around(IF num.unit = "pi" THEN (num.n * 355) \div (num.d * 113)
           ELSE IF num.unit = "millionth" THEN 0
           ELSE num.n \div num.d)

\* The whole numbers within 1e-3 of the argument.
WholeNear(num) == { k \in WholeCandidates(num) : NearWhole(NumberOf(num), k) }

RatioCandidates(num, denom) ==
    Around(IF num.unit = "pi" THEN (num.n * denom) \div num.d
           ELSE IF num.unit = "millionth" THEN 0
           ELSE ((num.n * denom * 113) \div 355) \div num.d)

\* The k with |num * denom / pi - k| < 1e-3.
PiMultiples(num, denom) ==
    { k \in RatioCandidates(num, denom) :
          WideAbsBelow(WideSub(Ratio(NumberOf(num), denom), Wide(k, 1)), epsilon) }

IsPiMultiple(num) == \E j \in 1..Len(denoms) : PiMultiples(num, denoms[j]) # {}

\* The first denominator of the list with a multiple.
FirstDenom(num) ==
    denoms[CHOOSE j \in 1..Len(denoms) :
               /\ PiMultiples(num, denoms[j]) # {}
               /\ \A m \in 1..(j - 1) : PiMultiples(num, denoms[m]) = {}]

PrecisionGiven == IF input.precision = Undefined THEN 4 ELSE input.precision[1]

\* The string is the decimal nearest to the argument at the precision:
\* |string - num| <= 1 / (2 * 10^precision).
NearestDecimal(string, num, precision) ==
    /\ string.form \in {"decimal", "whole"}
    /\ TenTo(precision) % string.d = 0
    /\ ~WideAbsAbove(WideMul(WideSub(Wide(string.n, string.d), NumberOf(num)),
                             Wide(2 * TenTo(precision), 1)), 1)

\* What formatNumberDecimal returns.
DecimalRule ==
    Formatted("formatNumberDecimal") =>
        /\ WideTiny(NumberOf(input.num)) => output[1].string = Whole(0)
        /\ NearestDecimal(output[1].string, input.num, PrecisionGiven)

WholeBeforePi ==
    /\ Formatted("formatNumberToLatex")
    /\ input.num = [n |-> 71, d |-> 1, unit |-> "one"]
    /\ 113 \in PiMultiples(input.num, 5)
    /\ output[1].string = Whole(71)

(***************************************************************************)
(* The abort conditions of solveClosest                                    *)
(***************************************************************************)
ClosestReturned == output # << >> /\ output[1].at = "returned"

\* g(currentX) of line 179.
ClosestAtEnd == ClosestG(input.expression, input.type, params, << >>, output[1].currentX)

\* C24: when the loop ends without the stopping criterion being met (g is
\* NaN, |g'| < 1e-9, |nextX| > 1e6, or 30 iterations pass) solveClosest
\* returns null.
AbortsReturnNull ==
    ClosestReturned /\ ~output[1].found => output[1].result = Undefined

\* The loop ended without the criterion and with |g(currentX)| >= 1e-3 or
\* g(currentX) NaN: null is returned.
AbortsReturnNullWhereFar ==
    /\ ClosestReturned
    /\ ~output[1].found
    /\ isNaN(ClosestAtEnd) \/ ~AbsBelow(ClosestAtEnd, 1000)
    => output[1].result = Undefined

\* A result was returned after the loop had left at |g'| < 1e-9.
AbortReturnedResult ==
    /\ ClosestReturned
    /\ ~output[1].found
    /\ output[1].iterations = 1
    /\ output[1].result # Undefined

(***************************************************************************)
(* The depth reached by the rounds of the resolver                         *)
(***************************************************************************)
DependenciesAt(k) == { j \in 1..Len(activeAnalyses) : DependsOn(k, j) }

\* The levels of indirection between the object at k and the free points.
RECURSIVE LevelAt(_, _)
LevelAt(k, fuel) ==
    IF IsFreePoint(activeAnalyses[k]) THEN 0
    ELSE IF fuel = 0 \/ DependenciesAt(k) = {} THEN Len(activeAnalyses) + 1
    ELSE 1 + LevelAt(CHOOSE j \in DependenciesAt(k) :
                         \A m \in DependenciesAt(k) : LevelAt(m, fuel - 1) <= LevelAt(j, fuel - 1),
                     fuel - 1)

Level(k) == LevelAt(k, Len(activeAnalyses))

PointOf(k) == CHOOSE p \in Range(points) : p.id = activeAnalyses[k].id

\* The coordinate of a point is its expression on the points returned.
ValueAt(k, expr, given, got) ==
    IF expr = << >> THEN got = OrZero(given)
    ELSE got = evaluate(sanitizeExpression(expr[1]), PointScope(points, Len(points)))

ResolvedAt(k) ==
    /\ HasPoint(points, activeAnalyses[k].id)
    /\ ValueAt(k, activeAnalyses[k].xExpr, activeAnalyses[k].x, PointOf(k).x)
    /\ ValueAt(k, activeAnalyses[k].yExpr, activeAnalyses[k].y, PointOf(k).y)

\* Every point at most MaxRounds levels from the free points is returned.
LevelsResolved ==
    pc = "done" => \A k \in 1..Len(activeAnalyses) : Level(k) <= MaxRounds => ResolvedAt(k)

RoundEnded == pc = "done" \/ (pc = "round" /\ idx > Len(activeAnalyses))

\* At the end of a round an object that stands after all the objects it
\* depends on has a point when they have one.
SameRound ==
    RoundEnded =>
        \A k \in 1..Len(activeAnalyses) :
            /\ DependenciesAt(k) # {}
            /\ \A j \in DependenciesAt(k) :
                   j < k /\ HasPoint(points, activeAnalyses[j].id)
            => HasPoint(points, activeAnalyses[k].id)

\* C25: a point that depends on free points through at most 5 levels is
\* resolved in one call whatever the order of the list, and an object that
\* stands after the objects it depends on is resolved in the round they are.
DepthReached ==
    /\ pc # "thrown"
    /\ LevelsResolved
    /\ SameRound

\* The last of the five rounds resolved a point five levels from the free point.
DepthWitness ==
    /\ pc = "done"
    /\ i = MaxRounds - 1
    /\ \E k \in 1..Len(activeAnalyses) : Level(k) = MaxRounds /\ ResolvedAt(k)
    /\ \A k \in 1..Len(activeAnalyses) : Level(k) <= MaxRounds

\* A point six levels from the free point was not resolved.
DepthBeyond ==
    /\ pc = "done"
    /\ \E k \in 1..Len(activeAnalyses) :
           Level(k) = MaxRounds + 1 /\ ~HasPoint(points, activeAnalyses[k].id)

(***************************************************************************)
(* The order of the list                                                   *)
(***************************************************************************)
\* The object at j names a sub-result R_1, R_2 of the analysis at k.
NamesResult(j, k) ==
    /\ activeAnalyses[k].type = "func_analysis"
    /\ activeAnalyses[k].x = Undefined
    /\ activeAnalyses[k].label # ""
    /\ \E n \in 1..2, c \in {"x_", "y_"} :
           (c \o activeAnalyses[k].label \o "_" \o ToString(n)) \in NamedBy(activeAnalyses[j])

NeededAt(k) == { j \in 1..Len(activeAnalyses) : DependsOn(k, j) \/ NamesResult(k, j) }

\* The longest chain of dependence from the object at k down to an object
\* that needs no other (0 for a free point), or more than MaxRounds when
\* the chain does not end.
RECURSIVE DepthAt(_, _)
DepthAt(k, fuel) ==
    IF IsFreePoint(activeAnalyses[k]) THEN 0
    ELSE IF NeededAt(k) = {} THEN 1
    ELSE IF fuel = 0 THEN MaxRounds + 1
    ELSE 1 + DepthAt(CHOOSE j \in NeededAt(k) :
                         \A m \in NeededAt(k) : DepthAt(m, fuel - 1) <= DepthAt(j, fuel - 1),
                     fuel - 1)

Depth(k) == DepthAt(k, Len(activeAnalyses))

DepthOfScene(d) == \A k \in 1..Len(activeAnalyses) : Depth(k) <= d

Triples(pts) == { <<pts[k].id, pts[k].x, pts[k].y>> : k \in 1..Len(pts) }

\* The call on the list in the order given returns what this call returned.
SameOutcome(r) == ~r.thrown /\ Triples(r.points) = Triples(points)

SameInOrder(order) == SameOutcome(calculateWorldPoints(functions, params, order))

\* The first two objects exchanged, the first object moved to the end, and
\* the list backwards: the first two make every order out of any order.
Swapped(list) == IF Len(list) < 2 THEN list ELSE <<list[2], list[1]>> \o SubSeq(list, 3, Len(list))
Rotated(list) == Tail(list) \o <<list[1]>>
Backwards(list) == Permuted(list, Reversed(Len(list)))

SameInOtherOrders ==
    /\ SameInOrder(Swapped(activeAnalyses))
    /\ SameInOrder(Rotated(activeAnalyses))
    /\ SameInOrder(Backwards(activeAnalyses))

EdgesOf(poly) == { {poly[k], poly[(k % Len(poly)) + 1]} : k \in 1..Len(poly) }

GridLines == { k * GridRes : k \in 0..Cols }

\* Both ends on one line of the grid: the edge lies on the border of a cell.
OnBorder(edge) ==
    \/ \E gx \in GridLines : \A p \in edge : p.x = R(gx)
    \/ \E gy \in GridLines : \A p \in edge : p.y = R(gy)

InnerEdges(polys) ==
    { edge \in UNION { EdgesOf(polys[k]) : k \in 1..Len(polys) } : ~OnBorder(edge) }

SegmentsOf(lines) == { {lines[k][1], lines[k][2]} : k \in 1..Len(lines) }

CellAgrees(x, y) ==
    InnerEdges(ShapesIn(output[1].fill, x, y)) = SegmentsOf(ShapesIn(output[1].outline, x, y))

\* caseIdx of the cell at column x, row y.
CaseOfCell(x, y) ==
    FillCase(Grid[y * Cols + x + 1], Grid[y * Cols + x + 2],
             Grid[y * Cols + x + Cols + 2], Grid[y * Cols + x + Cols + 1], input.operator)

\* C27: in every cell of an inequality the segments of the outline are the
\* edges of the polygons of the fill that do not lie on the border of the
\* cell, in each of the 16 cases.
OutlineAgreesWithFill ==
    Drawn /\ input.type = "inequality" =>
        \A cell \in CellsOfGrid : CellAgrees(cell[1], cell[2])

\* The same in every cell but those of case 10.
OutlineAgreesButCaseTen ==
    Drawn /\ input.type = "inequality" =>
        \A cell \in CellsOfGrid :
            Undefined4(cell[1], cell[2]) \/ CaseOfCell(cell[1], cell[2]) # 10
            => CellAgrees(cell[1], cell[2])

\* A cell of case 5 was drawn, outline and fill agreeing.
CaseFiveAgrees ==
    /\ Drawn /\ input.type = "inequality"
    /\ \E cell \in CellsOfGrid :
           /\ ~Undefined4(cell[1], cell[2])
           /\ CaseOfCell(cell[1], cell[2]) = 5
           /\ CellAgrees(cell[1], cell[2])
           /\ Len(ShapesIn(output[1].outline, cell[1], cell[2])) = 2

\* A cell of case 10 was drawn with an outline that is not the border of its fill.
CaseTenDisagrees ==
    /\ Drawn /\ input.type = "inequality"
    /\ \E cell \in CellsOfGrid :
           /\ ~Undefined4(cell[1], cell[2])
           /\ CaseOfCell(cell[1], cell[2]) = 10
           /\ ~CellAgrees(cell[1], cell[2])

(***************************************************************************)
(* The ids of the constructions                                            *)
(***************************************************************************)
\* C28: after any sequence of tool actions and typed commands no two
\* objects of activeAnalyses have the same id, also when two readings of
\* Date.now() in one handler give the same value.
ConstructionIdsUnique ==
    \A j, k \in 1..Len(activeAnalyses) :
        activeAnalyses[j].id = activeAnalyses[k].id => j = k

\* Two objects of one id are a point and the line made by the click that
\* made the point: the line ends at it.
SharedIdIsEndpoint(j, k) ==
    /\ activeAnalyses[j].type = "freePoint"
    /\ activeAnalyses[k].type \in LineTools
    /\ j < k
    /\ Len(activeAnalyses[k].vertices) = 2
    /\ activeAnalyses[k].vertices[2] = activeAnalyses[j].id

IdsUniqueButEndpoint ==
    \A j, k \in 1..Len(activeAnalyses) :
        activeAnalyses[j].id = activeAnalyses[k].id /\ j # k
        => SharedIdIsEndpoint(j, k) \/ SharedIdIsEndpoint(k, j)

\* A line has the id of its second endpoint.
LineSharesId ==
    \E j, k \in 1..Len(activeAnalyses) :
        activeAnalyses[j].id = activeAnalyses[k].id /\ SharedIdIsEndpoint(j, k)

(***************************************************************************)
(* The history entry of a canvas tool                                      *)
(***************************************************************************)
\* A canvas tool added a construction and committed in the same handler.
ToolCommitted ==
    /\ freePointTool \/ pointOnTool \/ tangentTool \/ lineTool
    /\ history' # history

HistoryInBounds(h, k) == k \in 1..Len(h) /\ Len(h) <= HistoryCap

\* C29: the history entry pushed by the commit of a canvas tool holds the
\* scene with the new construction, so that undo gives the scene before the
\* action and undo, redo the scene with it; historyIndex stays within the
\* history and the history within 50 entries.
HistoryRecordsAction ==
    [][ToolCommitted =>
            /\ history'[historyIndex'] = AppState(functions', activeAnalyses', params')
            /\ historyIndex' > 1
            /\ history'[historyIndex' - 1] = AppState(functions, activeAnalyses, params)
            /\ HistoryInBounds(history', historyIndex')]_vars

\* What the commit of a canvas tool pushes is the scene before the action.
HistoryRecordsSceneBefore ==
    [][ToolCommitted =>
            /\ history'[historyIndex'] = AppState(functions, activeAnalyses, params)
            /\ HistoryInBounds(history', historyIndex')]_vars

\* The entry at historyIndex lacks a construction the scene has.
HistoryBehind ==
    /\ historyIndex = Len(history)
    /\ Len(history[historyIndex].activeAnalyses) < Len(activeAnalyses)
    /\ history[historyIndex].activeAnalyses
           = SubSeq(activeAnalyses, 1, Len(history[historyIndex].activeAnalyses))
    /\ Len(history) > 1

(***************************************************************************)
(* The pruner removes no more than the closure                             *)
(***************************************************************************)
IdsAt(analyses, positions) == { analyses[k].id : k \in positions }

\* The positions of the objects from which targetId is reached in at most n
\* references: an object refers to targetId, or to the id of an object
\* that reaches it.
RECURSIVE Reaching(_, _, _, _)
Reaching(positions, targetId, analyses, n) ==
    IF n = 0 THEN positions
    ELSE Reaching(positions \cup { j \in 1..Len(analyses) :
                                       RefersTo(analyses[j],
                                                {targetId} \cup IdsAt(analyses, positions)) },
                  targetId, analyses, n - 1)

ReachingTarget(targetId, analyses) == Reaching({}, targetId, analyses, Len(analyses))

\* Every id of `ids` other than targetId is the id of an object that reaches
\* targetId, and every object whose id is in `ids` is the target or reaches it.
WithinClosure(ids, targetId, analyses) ==
    /\ ids \ {targetId} \subseteq IdsAt(analyses, ReachingTarget(targetId, analyses))
    /\ \A k \in 1..Len(analyses) :
           analyses[k].id \in ids =>
               analyses[k].id = targetId \/ k \in ReachingTarget(targetId, analyses)

\* C30: getObjectsToRemove returns nothing more than the closure: every id
\* returned other than targetId is the id of an object that reaches targetId
\* through a chain of vertices or targetId references, and an object with no
\* such chain is not returned.
PrunedWithinClosure ==
    before # << >> => WithinClosure(removed, before[1].id, before[1].analyses)

DistinctIds(analyses) ==
    \A j, k \in 1..Len(analyses) : analyses[j].id = analyses[k].id => j = k

\* The same on a list in which no two objects have the same id.
PrunedWithinClosureOnDistinctIds ==
    before # << >> /\ DistinctIds(before[1].analyses)
    => WithinClosure(removed, before[1].id, before[1].analyses)

\* The endpoint that has the id of its line was removed with the line,
\* though it refers to nothing.
EndpointPruned ==
    /\ before # << >>
    /\ \E j, k \in 1..Len(before[1].analyses) :
           /\ before[1].analyses[j].id = before[1].analyses[k].id
           /\ IsFreePoint(before[1].analyses[j])
           /\ before[1].analyses[k].type \in LineTools
           /\ before[1].analyses[j].id \in removed
           /\ before[1].analyses[j].id # before[1].id
           /\ j \notin ReachingTarget(before[1].id, before[1].analyses)
====
